---- MODULE Spec2Model ----
(***************************************************************************)
(* TuneForge: the song, playlist and user aggregates (models/Song.js,      *)
(* models/Playlist.js, models/User.js), the session middleware             *)
(* (middleware/auth.js) and the request handlers of routes/songs.js,       *)
(* routes/playlists.js, routes/auth.js, routes/api.js and routes/admin.js  *)
(* that call them.                                                         *)
(*                                                                         *)
(* Arrays are sequences.  JavaScript indices are kept 0-based: IndexOf     *)
(* returns -1 for an absent element, as Array.prototype.indexOf does.      *)
(* A JavaScript value that a caller only tests for truthiness is one of    *)
(* the strings JsTrue, JsFalse, JsUndefined; a thrown TypeError is Throws. *)
(***************************************************************************)
EXTENDS Integers, Sequences, FiniteSets, TLC

\* ------------------------------------------------------------------ bounds
MaxOrder == 2      \* largest newOrder a reorder request carries
MaxPlays == 2      \* stream requests that are let through, in total
MaxAssign == 1     \* longest songOrders array of a reorder request
MaxCalls == 105    \* stream requests of the listening-history runs
MaxInflight == 2   \* register and profile requests between findOne and write
MaxComments == 2   \* comments on one song
MaxSaves == 3      \* song requests that reach their save
MaxQueue == 3      \* longest playQueue of the client player

\* ------------------------------------------------------------- identifiers
Users == {"u1", "u2", "u3"}
Undefined == "undefined"          \* req.session.user?.id of an anonymous caller
Callers == Users \cup {Undefined}

SongIds == {"s1", "s2", "s3"}     \* documents of the Song collection
NoSong == "s9"                    \* an id no Song document has
PlaylistId == "p1"                \* the Playlist document
NoPlaylist == "p9"                \* an id no Playlist document has

JsTrue == "true"
JsFalse == "false"
JsUndefined == "undefined"
Throws == "TypeError"

VARIABLES
  likes,            \* song.likes, per song: array of user ids
  dislikes,         \* song.dislikes, per song: array of user ids
  playCount,        \* song.playCount, per song
  isPremium,        \* song.isPremium, per song
  listeningHistory, \* user.listeningHistory, per user: array of song ids
  session,          \* req.session.user, per user: the copy made at login
  subscription,     \* user.subscription, per user: [type, isActive]
  name,             \* playlist.name
  isPublic,         \* playlist.isPublic
  isCollaborative,  \* playlist.isCollaborative
  collaborators,    \* playlist.collaborators: array of [user, role]
  songs,            \* playlist.songs: array of [song, order, addedBy]
  duration,         \* playlist.duration
  playlistLikes,    \* playlist.likes: array of user ids
  followers,        \* playlist.followers: array of user ids
  playlistPlayCount,\* playlist.playCount
  songDocs,         \* the ids of the documents of the Song collection
  playlistDocs,     \* the ids of the documents of the Playlist collection
  isActive,         \* song.isActive, per song
  accounts,         \* the User collection: [username, email] per id of a document
  inflight,         \* register and profile requests between their findOne and their write
  comments,         \* song.comments, per song: array of [user, text]
  version,          \* song.__v, per song: the version key of the document
  loaded,           \* song requests between their findById and their save
  userRole,         \* user.role, per user
  userActive,       \* user.isActive, per user
  playQueue,        \* the player's playQueue: array of song ids
  currentQueueIndex,\* the player's currentQueueIndex, 0-based
  repeatMode,       \* the player's repeatMode
  isShuffled,       \* the player's isShuffled
  currentSong,      \* the player's currentSong: a song id or "null"
  isPlaying,        \* the player's isPlaying
  isFeatured,       \* playlist.isFeatured
  now,              \* the clock that new Date() reads
  resp,             \* the response to the latest request
  prev              \* the response to the request before it

songVars == <<likes, dislikes, playCount, isPremium>>
userVars == <<listeningHistory, session, subscription>>
playlistVars == <<name, isPublic, isCollaborative, collaborators, songs, duration>>
socialVars == <<playlistLikes, followers, playlistPlayCount>>
docVars == <<songDocs, playlistDocs, isActive>>
accountVars == <<accounts, inflight>>
loadVars == <<version, loaded>>
adminVars == <<userRole, userActive>>
playerVars == <<playQueue, currentQueueIndex, repeatMode, isShuffled, currentSong, isPlaying>>
vars == <<comments, version, loaded, userRole, userActive, playQueue, currentQueueIndex,
          repeatMode, isShuffled, currentSong, isPlaying, isFeatured,
          likes, dislikes, playCount, isPremium, listeningHistory, session,
          subscription, name, isPublic, isCollaborative, collaborators, songs,
          duration, playlistLikes, followers, playlistPlayCount, songDocs,
          playlistDocs, isActive, accounts, inflight, now, resp, prev>>

\* ------------------------------------------------------------ array helpers
Min(S) == CHOOSE x \in S : \A y \in S : x <= y
Max(S) == CHOOSE x \in S : \A y \in S : x >= y

\* Array.prototype.indexOf, 0-based, -1 when absent
IndexOf(arr, x) ==
  IF \E i \in 1..Len(arr) : arr[i] = x
    THEN Min({i \in 1..Len(arr) : arr[i] = x}) - 1
    ELSE -1

\* arr.splice(i, 1) for a 0-based index i
Splice1(arr, i) == SubSeq(arr, 1, i) \o SubSeq(arr, i + 2, Len(arr))

\* arr.push(x)
Push(arr, x) == Append(arr, x)

Range(arr) == {arr[i] : i \in 1..Len(arr)}

\* ------------------------------------------------------------ Song aggregate
\* songSchema.methods.toggleLike on a song with arrays l (likes), d (dislikes)
ToggleLikeNoUndislike(l, d, userId) ==
  LET likeIndex == IndexOf(l, userId)
  IN IF likeIndex > -1
       THEN [likes |-> Splice1(l, likeIndex), dislikes |-> d]
       ELSE [likes |-> Push(l, userId), dislikes |-> d]

ToggleLikeAlwaysPush(l, d, userId) ==
  LET dislikeIndex == IndexOf(d, userId)
  IN [likes |-> Push(l, userId),
      dislikes |-> IF dislikeIndex > -1 THEN Splice1(d, dislikeIndex) ELSE d]

toggleLike(l, d, userId) ==
  LET likeIndex == IndexOf(l, userId)
      dislikeIndex == IndexOf(d, userId)
  IN IF likeIndex > -1
       THEN [likes |-> Splice1(l, likeIndex), dislikes |-> d]
       ELSE [likes |-> Push(l, userId),
             dislikes |-> IF dislikeIndex > -1 THEN Splice1(d, dislikeIndex) ELSE d]

\* songSchema.methods.toggleDislike
toggleDislike(l, d, userId) ==
  LET likeIndex == IndexOf(l, userId)
      dislikeIndex == IndexOf(d, userId)
  IN IF dislikeIndex > -1
       THEN [likes |-> l, dislikes |-> Splice1(d, dislikeIndex)]
       ELSE [likes |-> IF likeIndex > -1 THEN Splice1(l, likeIndex) ELSE l,
             dislikes |-> Push(d, userId)]

\* a response: which route, who asked (session.user.id), for which document
\* (:id of the URL), with what outcome
Response(route, user, id, status) ==
  [route |-> route, user |-> user, id |-> id, song |-> "none", status |-> status]

\* the response of a playlist route that also names a song
SongResponse(route, user, id, song, status) ==
  [route |-> route, user |-> user, id |-> id, song |-> song, status |-> status]

NoResponse == Response("none", Undefined, "none", "none")

\* requireAuth: a request without session.user is sent to the login page
requireAuth(u) == u # Undefined

\* POST /songs/:id/like
PostSongLike(u, id) ==
  /\ IF ~requireAuth(u)
       THEN /\ resp' = Response("song.like", u, id, "LoginRedirect")
            /\ UNCHANGED <<likes, dislikes>>
       ELSE IF id \notin songDocs
       THEN /\ resp' = Response("song.like", u, id, "NotFound")
            /\ UNCHANGED <<likes, dislikes>>
       ELSE LET r == toggleLike(likes[id], dislikes[id], u)
            IN /\ likes' = [likes EXCEPT ![id] = r.likes]
               /\ dislikes' = [dislikes EXCEPT ![id] = r.dislikes]
               /\ resp' = Response("song.like", u, id, "OK")
  /\ UNCHANGED <<playCount, isPremium, userVars, playlistVars>>
  /\ UNCHANGED <<socialVars, docVars, accountVars, now>>
  /\ UNCHANGED <<comments, loadVars, adminVars, playerVars, isFeatured>>

\* POST /songs/:id/dislike
PostSongDislike(u, id) ==
  /\ IF ~requireAuth(u)
       THEN /\ resp' = Response("song.dislike", u, id, "LoginRedirect")
            /\ UNCHANGED <<likes, dislikes>>
       ELSE IF id \notin songDocs
       THEN /\ resp' = Response("song.dislike", u, id, "NotFound")
            /\ UNCHANGED <<likes, dislikes>>
       ELSE LET r == toggleDislike(likes[id], dislikes[id], u)
            IN /\ likes' = [likes EXCEPT ![id] = r.likes]
               /\ dislikes' = [dislikes EXCEPT ![id] = r.dislikes]
               /\ resp' = Response("song.dislike", u, id, "OK")
  /\ UNCHANGED <<playCount, isPremium, userVars, playlistVars>>
  /\ UNCHANGED <<socialVars, docVars, accountVars, now>>
  /\ UNCHANGED <<comments, loadVars, adminVars, playerVars, isFeatured>>

\* -------------------------------------------------------- Playlist aggregate
createdBy == "u1"                 \* playlist.createdBy, set by POST /playlists/create
Roles == {"editor", "viewer"}

\* song.duration of the uploaded songs, in seconds
SongDuration == [s \in SongIds |-> IF s = "s1" THEN 1 ELSE IF s = "s2" THEN 2 ELSE 4]

RECURSIVE Sum(_, _)
Sum(f, S) == IF S = {} THEN 0
             ELSE LET x == CHOOSE x \in S : TRUE IN f[x] + Sum(f, S \ {x})

\* this.collaborators.find(c => c.user.toString() === userId.toString()):
\* the 1-based position of the first match, 0 for undefined
FindCollaborator(cs, userId) == IndexOf([i \in 1..Len(cs) |-> cs[i].user], userId) + 1

\* this.songs.find(s => s.song.toString() === songId.toString())
FindSong(ss, songId) == IndexOf([i \in 1..Len(ss) |-> ss[i].song], songId) + 1

\* playlistSchema.methods.canEdit
CanEditIgnoringCollaborativeFlag(userId) ==
  IF userId = Undefined THEN Throws
  ELSE IF createdBy = userId THEN JsTrue
  ELSE LET c == FindCollaborator(collaborators, userId)
       IN IF c = 0 THEN JsUndefined
          ELSE IF collaborators[c].role = "editor" THEN JsTrue ELSE JsFalse

canEdit(userId) ==
  IF userId = Undefined THEN Throws
  ELSE IF createdBy = userId THEN JsTrue
  ELSE IF ~isCollaborative THEN JsFalse
  ELSE LET c == FindCollaborator(collaborators, userId)
       IN IF c = 0 THEN JsUndefined
          ELSE IF collaborators[c].role = "editor" THEN JsTrue ELSE JsFalse

\* playlistSchema.methods.canView
CanViewEditorsOnly(userId) ==
  IF isPublic THEN JsTrue
  ELSE IF userId = Undefined THEN Throws
  ELSE IF createdBy = userId THEN JsTrue
  ELSE LET c == FindCollaborator(collaborators, userId)
       IN IF c # 0 /\ collaborators[c].role = "editor" THEN JsTrue ELSE JsFalse

canView(userId) ==
  IF isPublic THEN JsTrue
  ELSE IF userId = Undefined THEN Throws
  ELSE IF createdBy = userId THEN JsTrue
  ELSE IF FindCollaborator(collaborators, userId) # 0 THEN JsTrue ELSE JsFalse

\* the callers' test  if (!playlist.canEdit(...))
Truthy(v) == v = JsTrue

\* playlistSchema.pre('save'): the duration that this.save() stores for the
\* songs array ss when the document held duration dur
preSave(ss, dur) ==
  IF Len(ss) > 0
    THEN Sum(SongDuration, {ss[i].song : i \in 1..Len(ss)} \cap songDocs)
    ELSE dur

\* playlistSchema.methods.addSong, up to its save: the songs array it leaves,
\* and ok = FALSE when it throws 'Song already exists in playlist'
AddSongNoDuplicateCheck(ss, songId, userId) ==
  LET maxOrder == IF Len(ss) > 0 THEN Max({ss[i].order : i \in 1..Len(ss)}) ELSE 0
  IN [ok |-> TRUE,
      songs |-> Push(ss, [song |-> songId, addedBy |-> userId, order |-> maxOrder + 1])]

AddSongAtFront(ss, songId, userId) ==
  IF FindSong(ss, songId) # 0
    THEN [ok |-> FALSE, songs |-> ss]
    ELSE LET maxOrder == IF Len(ss) > 0
                           THEN Max({ss[i].order : i \in 1..Len(ss)}) ELSE 0
         IN [ok |-> TRUE,
             songs |-> <<[song |-> songId, addedBy |-> userId,
                          order |-> maxOrder + 1]>> \o ss]

AddSongOrderFromLength(ss, songId, userId) ==
  IF FindSong(ss, songId) # 0
    THEN [ok |-> FALSE, songs |-> ss]
    ELSE [ok |-> TRUE,
          songs |-> Push(ss, [song |-> songId, addedBy |-> userId, order |-> Len(ss) + 1])]

addSong(ss, songId, userId) ==
  IF FindSong(ss, songId) # 0
    THEN [ok |-> FALSE, songs |-> ss]
    ELSE LET maxOrder == IF Len(ss) > 0
                           THEN Max({ss[i].order : i \in 1..Len(ss)}) ELSE 0
         IN [ok |-> TRUE,
             songs |-> Push(ss, [song |-> songId, addedBy |-> userId,
                                 order |-> maxOrder + 1])]

\* playlistSchema.methods.removeSong, up to its save
removeSong(ss, songId) == SelectSeq(ss, LAMBDA e : e.song # songId)

\* songOrders.forEach(({songId, newOrder}) => ...) of reorderSongs
RECURSIVE ApplyOrders(_, _)
ApplyOrders(ss, songOrders) ==
  IF songOrders = <<>> THEN ss
  ELSE LET a == Head(songOrders)
           i == FindSong(ss, a.songId)
       IN ApplyOrders(IF i # 0 THEN [ss EXCEPT ![i].order = a.newOrder] ELSE ss,
                      Tail(songOrders))

\* this.songs.sort((a, b) => a.order - b.order): a stable sort
InsertByOrder(sorted, e) ==
  LET k == Cardinality({i \in 1..Len(sorted) : sorted[i].order <= e.order})
  IN SubSeq(sorted, 1, k) \o <<e>> \o SubSeq(sorted, k + 1, Len(sorted))

RECURSIVE SortByOrder(_)
SortByOrder(ss) ==
  IF ss = <<>> THEN <<>>
  ELSE InsertByOrder(SortByOrder(SubSeq(ss, 1, Len(ss) - 1)), ss[Len(ss)])

\* playlistSchema.methods.reorderSongs, up to its save
ReorderSongsWithoutSort(ss, songOrders) == ApplyOrders(ss, songOrders)

reorderSongs(ss, songOrders) == SortByOrder(ApplyOrders(ss, songOrders))

\* playlistSchema.methods.addCollaborator
AddCollaboratorAlwaysPush(cs, userId, role) == Push(cs, [user |-> userId, role |-> role])

addCollaborator(cs, userId, role) ==
  LET c == FindCollaborator(cs, userId)
  IN IF c # 0 THEN [cs EXCEPT ![c].role = role]
     ELSE Push(cs, [user |-> userId, role |-> role])

\* playlistSchema.methods.removeCollaborator
removeCollaborator(cs, userId) == SelectSeq(cs, LAMBDA c : c.user # userId)

\* playlistSchema.methods.toggleLike on the array l of playlist.likes
PlaylistToggleLikeAlwaysPush(l, userId) == Push(l, userId)

playlistToggleLike(l, userId) ==
  LET likeIndex == IndexOf(l, userId)
  IN IF likeIndex > -1 THEN Splice1(l, likeIndex) ELSE Push(l, userId)

\* playlistSchema.methods.toggleFollow on the array f of playlist.followers
toggleFollow(f, userId) ==
  LET followIndex == IndexOf(f, userId)
  IN IF followIndex > -1 THEN Splice1(f, followIndex) ELSE Push(f, userId)

\* ----------------------------------------------------------- Playlist routes
\* GET /playlists/:id, the playlist detail page; populate('songs.song') leaves
\* null for a song that has no document, and song.isPremium then throws
GetPlaylistPage(u, id) ==
  /\ resp' = Response("playlist.page", u, id,
       IF id \notin playlistDocs THEN "NotFound"
       ELSE IF canView(u) = Throws THEN "Error"
       ELSE IF ~Truthy(canView(u)) THEN "Forbidden"
       ELSE IF \E i \in 1..Len(songs) : songs[i].song \notin songDocs THEN "Error"
       ELSE IF canEdit(u) = Throws THEN "Error"
       ELSE "OK")
  /\ UNCHANGED <<songVars, userVars, playlistVars>>
  /\ UNCHANGED <<socialVars, docVars, accountVars, now>>
  /\ UNCHANGED <<comments, loadVars, adminVars, playerVars, isFeatured>>

\* GET /api/playlists/:id
GetPlaylistApi(u, id) ==
  /\ resp' = Response("playlist.api", u, id,
       IF id \notin playlistDocs THEN "NotFound"
       ELSE IF canView(u) = Throws THEN "Error"
       ELSE IF ~Truthy(canView(u)) THEN "Forbidden"
       ELSE "OK")
  /\ UNCHANGED <<songVars, userVars, playlistVars>>
  /\ UNCHANGED <<socialVars, docVars, accountVars, now>>
  /\ UNCHANGED <<comments, loadVars, adminVars, playerVars, isFeatured>>

\* the name check of express-validator: trim().isLength({min: 1, max: 100})
ValidName(n) == n # ""

\* POST /playlists/:id/edit with form = [name, isPublic, isCollaborative]
PostEditPlaylist(u, id, form) ==
  /\ IF ~requireAuth(u)
       THEN /\ resp' = Response("playlist.edit", u, id, "LoginRedirect")
            /\ UNCHANGED playlistVars
       ELSE IF ~ValidName(form.name)
       THEN /\ resp' = Response("playlist.edit", u, id,
                         IF id \notin playlistDocs THEN "Error" ELSE "ValidationFailed")
            /\ UNCHANGED playlistVars
       ELSE IF id \notin playlistDocs
       THEN /\ resp' = Response("playlist.edit", u, id, "NotFound")
            /\ UNCHANGED playlistVars
       ELSE IF ~Truthy(canEdit(u))
       THEN /\ resp' = Response("playlist.edit", u, id, "Forbidden")
            /\ UNCHANGED playlistVars
       ELSE /\ name' = form.name
            /\ isPublic' = form.isPublic
            /\ isCollaborative' = form.isCollaborative
            /\ duration' = preSave(songs, duration)
            /\ resp' = Response("playlist.edit", u, id, "OK")
            /\ UNCHANGED <<collaborators, songs>>
  /\ UNCHANGED <<songVars, userVars>>
  /\ UNCHANGED <<socialVars, docVars, accountVars, now>>
  /\ UNCHANGED <<comments, loadVars, adminVars, playerVars, isFeatured>>

\* POST /playlists/:id/songs
PostAddSong(u, id, songId) ==
  /\ IF ~requireAuth(u)
       THEN /\ resp' = SongResponse("playlist.addSong", u, id, songId, "LoginRedirect")
            /\ UNCHANGED <<songs, duration>>
       ELSE IF id \notin playlistDocs
       THEN /\ resp' = SongResponse("playlist.addSong", u, id, songId, "NotFound")
            /\ UNCHANGED <<songs, duration>>
       ELSE IF ~Truthy(canEdit(u))
       THEN /\ resp' = SongResponse("playlist.addSong", u, id, songId, "Forbidden")
            /\ UNCHANGED <<songs, duration>>
       ELSE IF songId \notin songDocs
       THEN /\ resp' = SongResponse("playlist.addSong", u, id, songId, "NotFound")
            /\ UNCHANGED <<songs, duration>>
       ELSE LET r == addSong(songs, songId, u)
            IN /\ songs' = r.songs
               /\ duration' = IF r.ok THEN preSave(songs', duration) ELSE duration
               /\ resp' = SongResponse("playlist.addSong", u, id, songId,
                            IF r.ok THEN "OK" ELSE "AlreadyExists")
  /\ UNCHANGED <<songVars, userVars, name, isPublic, isCollaborative, collaborators>>
  /\ UNCHANGED <<socialVars, docVars, accountVars, now>>
  /\ UNCHANGED <<comments, loadVars, adminVars, playerVars, isFeatured>>

\* DELETE /playlists/:id/songs/:songId
DeleteSong(u, id, songId) ==
  /\ IF ~requireAuth(u)
       THEN /\ resp' = SongResponse("playlist.removeSong", u, id, songId, "LoginRedirect")
            /\ UNCHANGED <<songs, duration>>
       ELSE IF id \notin playlistDocs
       THEN /\ resp' = SongResponse("playlist.removeSong", u, id, songId, "NotFound")
            /\ UNCHANGED <<songs, duration>>
       ELSE IF ~Truthy(canEdit(u))
       THEN /\ resp' = SongResponse("playlist.removeSong", u, id, songId, "Forbidden")
            /\ UNCHANGED <<songs, duration>>
       ELSE /\ songs' = removeSong(songs, songId)
            /\ duration' = preSave(songs', duration)
            /\ resp' = SongResponse("playlist.removeSong", u, id, songId, "OK")
  /\ UNCHANGED <<songVars, userVars, name, isPublic, isCollaborative, collaborators>>
  /\ UNCHANGED <<socialVars, docVars, accountVars, now>>
  /\ UNCHANGED <<comments, loadVars, adminVars, playerVars, isFeatured>>

\* POST /playlists/:id/reorder
PostReorder(u, id, songOrders) ==
  /\ IF ~requireAuth(u)
       THEN /\ resp' = Response("playlist.reorder", u, id, "LoginRedirect")
            /\ UNCHANGED <<songs, duration>>
       ELSE IF id \notin playlistDocs
       THEN /\ resp' = Response("playlist.reorder", u, id, "NotFound")
            /\ UNCHANGED <<songs, duration>>
       ELSE IF ~Truthy(canEdit(u))
       THEN /\ resp' = Response("playlist.reorder", u, id, "Forbidden")
            /\ UNCHANGED <<songs, duration>>
       ELSE /\ songs' = reorderSongs(songs, songOrders)
            /\ duration' = preSave(songs', duration)
            /\ resp' = Response("playlist.reorder", u, id, "OK")
  /\ UNCHANGED <<songVars, userVars, name, isPublic, isCollaborative, collaborators>>
  /\ UNCHANGED <<socialVars, docVars, accountVars, now>>
  /\ UNCHANGED <<comments, loadVars, adminVars, playerVars, isFeatured>>

\* DELETE /playlists/:id
DeletePlaylistByEditors(u, id) ==
  /\ IF ~requireAuth(u)
       THEN /\ resp' = Response("playlist.delete", u, id, "LoginRedirect")
            /\ UNCHANGED playlistDocs
       ELSE IF id \notin playlistDocs
       THEN /\ resp' = Response("playlist.delete", u, id, "NotFound")
            /\ UNCHANGED playlistDocs
       ELSE IF ~Truthy(canEdit(u))
       THEN /\ resp' = Response("playlist.delete", u, id, "Forbidden")
            /\ UNCHANGED playlistDocs
       ELSE /\ playlistDocs' = playlistDocs \ {id}
            /\ resp' = Response("playlist.delete", u, id, "OK")
  /\ UNCHANGED <<songVars, userVars, playlistVars, socialVars>>
  /\ UNCHANGED <<songDocs, isActive, accountVars, now>>
  /\ UNCHANGED <<comments, loadVars, adminVars, playerVars, isFeatured>>

DeletePlaylist(u, id) ==
  /\ IF ~requireAuth(u)
       THEN /\ resp' = Response("playlist.delete", u, id, "LoginRedirect")
            /\ UNCHANGED playlistDocs
       ELSE IF id \notin playlistDocs
       THEN /\ resp' = Response("playlist.delete", u, id, "NotFound")
            /\ UNCHANGED playlistDocs
       ELSE IF createdBy # u
       THEN /\ resp' = Response("playlist.delete", u, id, "Forbidden")
            /\ UNCHANGED playlistDocs
       ELSE /\ playlistDocs' = playlistDocs \ {id}
            /\ resp' = Response("playlist.delete", u, id, "OK")
  /\ UNCHANGED <<songVars, userVars, playlistVars, socialVars>>
  /\ UNCHANGED <<songDocs, isActive, accountVars, now>>
  /\ UNCHANGED <<comments, loadVars, adminVars, playerVars, isFeatured>>

\* POST /playlists/:id/like
PostPlaylistLike(u, id) ==
  /\ IF ~requireAuth(u)
       THEN /\ resp' = Response("playlist.like", u, id, "LoginRedirect")
            /\ UNCHANGED <<playlistLikes, duration>>
       ELSE IF id \notin playlistDocs
       THEN /\ resp' = Response("playlist.like", u, id, "NotFound")
            /\ UNCHANGED <<playlistLikes, duration>>
       ELSE /\ playlistLikes' = playlistToggleLike(playlistLikes, u)
            /\ duration' = preSave(songs, duration)
            /\ resp' = Response("playlist.like", u, id, "OK")
  /\ UNCHANGED <<songVars, userVars, name, isPublic, isCollaborative, collaborators, songs>>
  /\ UNCHANGED <<followers, playlistPlayCount, docVars, accountVars, now>>
  /\ UNCHANGED <<comments, loadVars, adminVars, playerVars, isFeatured>>

\* POST /playlists/:id/follow
PostPlaylistFollow(u, id) ==
  /\ IF ~requireAuth(u)
       THEN /\ resp' = Response("playlist.follow", u, id, "LoginRedirect")
            /\ UNCHANGED <<followers, duration>>
       ELSE IF id \notin playlistDocs
       THEN /\ resp' = Response("playlist.follow", u, id, "NotFound")
            /\ UNCHANGED <<followers, duration>>
       ELSE /\ followers' = toggleFollow(followers, u)
            /\ duration' = preSave(songs, duration)
            /\ resp' = Response("playlist.follow", u, id, "OK")
  /\ UNCHANGED <<songVars, userVars, name, isPublic, isCollaborative, collaborators, songs>>
  /\ UNCHANGED <<playlistLikes, playlistPlayCount, docVars, accountVars, now>>
  /\ UNCHANGED <<comments, loadVars, adminVars, playerVars, isFeatured>>

\* POST /playlists/:id/play
PostPlaylistPlay(u, id) ==
  /\ IF id \notin playlistDocs
       THEN /\ resp' = Response("playlist.play", u, id, "NotFound")
            /\ UNCHANGED <<playlistPlayCount, duration>>
       ELSE IF canView(u) = Throws
       THEN /\ resp' = Response("playlist.play", u, id, "Error")
            /\ UNCHANGED <<playlistPlayCount, duration>>
       ELSE IF ~Truthy(canView(u))
       THEN /\ resp' = Response("playlist.play", u, id, "Forbidden")
            /\ UNCHANGED <<playlistPlayCount, duration>>
       ELSE /\ playlistPlayCount' = playlistPlayCount + 1
            /\ duration' = preSave(songs, duration)
            /\ resp' = Response("playlist.play", u, id, "OK")
  /\ UNCHANGED <<songVars, userVars, name, isPublic, isCollaborative, collaborators, songs>>
  /\ UNCHANGED <<playlistLikes, followers, docVars, accountVars, now>>
  /\ UNCHANGED <<comments, loadVars, adminVars, playerVars, isFeatured>>

\* playlist.addCollaborator(userId, role), saved
AddCollaborator(userId, role) ==
  /\ collaborators' = addCollaborator(collaborators, userId, role)
  /\ duration' = preSave(songs, duration)
  /\ resp' = Response("playlist.addCollaborator", userId, PlaylistId, "OK")
  /\ UNCHANGED <<songVars, userVars, name, isPublic, isCollaborative, songs>>
  /\ UNCHANGED <<socialVars, docVars, accountVars, now>>
  /\ UNCHANGED <<comments, loadVars, adminVars, playerVars, isFeatured>>

\* playlist.removeCollaborator(userId), saved
RemoveCollaborator(userId) ==
  /\ collaborators' = removeCollaborator(collaborators, userId)
  /\ duration' = preSave(songs, duration)
  /\ resp' = Response("playlist.removeCollaborator", userId, PlaylistId, "OK")
  /\ UNCHANGED <<songVars, userVars, name, isPublic, isCollaborative, songs>>
  /\ UNCHANGED <<socialVars, docVars, accountVars, now>>
  /\ UNCHANGED <<comments, loadVars, adminVars, playerVars, isFeatured>>

\* ------------------------------------------------------- sessions and premium
\* userSchema.subscription defaults
FreeSubscription == [type |-> "free", isActive |-> TRUE]
SubTypes == {"free", "premium", "pro"}
Subscriptions == [type : SubTypes, isActive : BOOLEAN]

\* req.session.user as POST /auth/login stores it; loggedIn = FALSE stands
\* for a session without user
SessionUser(sub, r) == [loggedIn |-> TRUE, role |-> r, subscription |-> sub]
NoSession == [loggedIn |-> FALSE, role |-> "user", subscription |-> FreeSubscription]

\* the ids a request can carry in req.session.user?.id
LoggedIn == {u \in Users : session[u].loggedIn}

\* checkPremium: res.locals.isPremium of a request of caller u
CheckPremiumIgnoringActive(u) ==
  IF u # Undefined /\ session[u].loggedIn
    THEN session[u].subscription.type # "free"
    ELSE FALSE

checkPremium(u) ==
  IF u # Undefined /\ session[u].loggedIn
    THEN session[u].subscription.type # "free" /\ session[u].subscription.isActive
    ELSE FALSE

\* POST /auth/login from the browser of user u; passwordOk: the password
\* matches.  requireGuest sends a browser that is logged in to the dashboard,
\* and User.findOne({email, isActive: true}) finds no deactivated user.
PostLogin(u, passwordOk) ==
  /\ IF session[u].loggedIn
       THEN /\ resp' = Response("auth.login", u, "none", "DashboardRedirect")
            /\ UNCHANGED session
       ELSE IF u \in DOMAIN accounts /\ userActive[u] /\ passwordOk
       THEN /\ session' = [session EXCEPT ![u] = SessionUser(subscription[u], userRole[u])]
            /\ resp' = Response("auth.login", u, "none", "OK")
       ELSE /\ resp' = Response("auth.login", u, "none", "InvalidCredentials")
            /\ UNCHANGED session
  /\ UNCHANGED <<songVars, listeningHistory, subscription, playlistVars>>
  /\ UNCHANGED <<socialVars, docVars, accountVars, now>>
  /\ UNCHANGED <<comments, loadVars, adminVars, playerVars, isFeatured>>

\* POST /auth/logout from the browser of user u
PostLogout(u) ==
  /\ IF ~session[u].loggedIn
       THEN /\ resp' = Response("auth.logout", u, "none", "LoginRedirect")
            /\ UNCHANGED session
       ELSE /\ session' = [session EXCEPT ![u] = NoSession]
            /\ resp' = Response("auth.logout", u, "none", "OK")
  /\ UNCHANGED <<songVars, listeningHistory, subscription, playlistVars>>
  /\ UNCHANGED <<socialVars, docVars, accountVars, now>>
  /\ UNCHANGED <<comments, loadVars, adminVars, playerVars, isFeatured>>

\* the unique indexes of userSchema.username and userSchema.email: whether
\* the collection acc takes doc as the document of id
UniqueIndexAbsent(acc, id, doc) == TRUE

UniqueIndex(acc, id, doc) ==
  \A a \in DOMAIN acc \ {id} :
    acc[a].username # doc.username /\ acc[a].email # doc.email

\* body('username').isLength({min: 3, max: 30}): the names that fail it
ShortNames == {"al"}
ValidUsername(n) == n \notin ShortNames

\* inflight without its i-th request
Answered(i) == SubSeq(inflight, 1, i - 1) \o SubSeq(inflight, i + 1, Len(inflight))

\* POST /auth/register up to its User.findOne({$or: [{email}, {username}]})
PostRegisterFind(username, email) ==
  /\ IF ~ValidUsername(username)
       THEN /\ resp' = Response("auth.register", Undefined, "none", "ValidationFailed")
            /\ UNCHANGED inflight
       ELSE IF \E a \in DOMAIN accounts :
                 accounts[a].email = email \/ accounts[a].username = username
       THEN /\ resp' = Response("auth.register", Undefined, "none", "AlreadyExists")
            /\ UNCHANGED inflight
       ELSE /\ inflight' = Append(inflight, [route |-> "auth.register", user |-> Undefined,
                                             username |-> username, email |-> email])
            /\ UNCHANGED resp
  /\ UNCHANGED <<songVars, userVars, playlistVars, socialVars, docVars, accounts, now>>
  /\ UNCHANGED <<comments, loadVars, adminVars, playerVars, isFeatured>>

\* POST /auth/register from its user.save() on, for the i-th request in flight
PostRegisterSave(i) ==
  LET r == inflight[i]
      id == CHOOSE u \in Users : u \notin DOMAIN accounts
      doc == [username |-> r.username, email |-> r.email]
  IN /\ r.route = "auth.register"
     /\ inflight' = Answered(i)
     /\ IF UniqueIndex(accounts, id, doc)
          THEN /\ accounts' = [u \in DOMAIN accounts \cup {id} |->
                                 IF u = id THEN doc ELSE accounts[u]]
               /\ userRole' = [userRole EXCEPT ![id] = "user"]
               /\ userActive' = [userActive EXCEPT ![id] = TRUE]
               /\ session' = [session EXCEPT ![id] = SessionUser(subscription[id], "user")]
               /\ resp' = Response("auth.register", id, "none", "OK")
          ELSE /\ resp' = Response("auth.register", Undefined, "none", "Error")
               /\ UNCHANGED <<accounts, session, adminVars>>
     /\ UNCHANGED <<songVars, listeningHistory, subscription, playlistVars, socialVars,
                    docVars, now>>
     /\ UNCHANGED <<comments, loadVars, playerVars, isFeatured>>

\* POST /auth/profile up to its User.findOne({username, _id: {$ne: userId}})
PostProfileFind(u, username) ==
  /\ IF ~session[u].loggedIn
       THEN /\ resp' = Response("auth.profile", u, "none", "LoginRedirect")
            /\ UNCHANGED inflight
       ELSE IF ~ValidUsername(username)
       THEN /\ resp' = Response("auth.profile", u, "none", "ValidationFailed")
            /\ UNCHANGED inflight
       ELSE IF \E a \in DOMAIN accounts \ {u} : accounts[a].username = username
       THEN /\ resp' = Response("auth.profile", u, "none", "UsernameTaken")
            /\ UNCHANGED inflight
       ELSE /\ inflight' = Append(inflight, [route |-> "auth.profile", user |-> u,
                                             username |-> username, email |-> "none"])
            /\ UNCHANGED resp
  /\ UNCHANGED <<songVars, userVars, playlistVars, socialVars, docVars, accounts, now>>
  /\ UNCHANGED <<comments, loadVars, adminVars, playerVars, isFeatured>>

\* POST /auth/profile from its User.findByIdAndUpdate on
PostProfileSave(i) ==
  LET r == inflight[i]
  IN /\ r.route = "auth.profile"
     /\ inflight' = Answered(i)
     /\ IF r.user \notin DOMAIN accounts
          THEN /\ resp' = Response("auth.profile", r.user, "none", "Error")
               /\ UNCHANGED accounts
          ELSE LET doc == [accounts[r.user] EXCEPT !.username = r.username]
               IN IF UniqueIndex(accounts, r.user, doc)
                    THEN /\ accounts' = [accounts EXCEPT ![r.user] = doc]
                         /\ resp' = Response("auth.profile", r.user, "none", "OK")
                    ELSE /\ resp' = Response("auth.profile", r.user, "none", "Error")
                         /\ UNCHANGED accounts
     /\ UNCHANGED <<songVars, userVars, playlistVars, socialVars, docVars, now>>
     /\ UNCHANGED <<comments, loadVars, adminVars, playerVars, isFeatured>>

\* the users whose stored role is admin at first
Admins == {"u3"}

\* requireAdmin: req.session && req.session.user &&
\* req.session.user.role === 'admin'
RequireAdminFromDatabase(u) == u # Undefined /\ session[u].loggedIn /\ userRole[u] = "admin"

requireAdmin(u) == u # Undefined /\ session[u].loggedIn /\ session[u].role = "admin"

\* POST /admin/users/:id/status with req.body.isActive = isActiveBody
NoUser == "u9"                    \* an id no User document has
AdminUserStatus(u, id, isActiveBody) ==
  /\ IF ~requireAdmin(u)
       THEN /\ resp' = Response("admin.userStatus", u, id, "HomeRedirect")
            /\ UNCHANGED userActive
       ELSE IF id \notin DOMAIN accounts
       THEN /\ resp' = Response("admin.userStatus", u, id, "NotFound")
            /\ UNCHANGED userActive
       ELSE /\ userActive' = [userActive EXCEPT ![id] = (isActiveBody = JsTrue)]
            /\ resp' = Response("admin.userStatus", u, id, "OK")
  /\ UNCHANGED <<songVars, userVars, playlistVars, socialVars, docVars, accountVars, now>>
  /\ UNCHANGED <<comments, loadVars, userRole, playerVars, isFeatured>>

\* POST /admin/users/:id/role with req.body.role = roleBody
UserRoles == {"user", "admin", "moderator"}
AdminUserRole(u, id, roleBody) ==
  /\ IF ~requireAdmin(u)
       THEN /\ resp' = Response("admin.userRole", u, id, "HomeRedirect")
            /\ UNCHANGED userRole
       ELSE IF roleBody \notin UserRoles
       THEN /\ resp' = Response("admin.userRole", u, id, "InvalidRole")
            /\ UNCHANGED userRole
       ELSE IF id \notin DOMAIN accounts
       THEN /\ resp' = Response("admin.userRole", u, id, "NotFound")
            /\ UNCHANGED userRole
       ELSE /\ userRole' = [userRole EXCEPT ![id] = roleBody]
            /\ resp' = Response("admin.userRole", u, id, "OK")
  /\ UNCHANGED <<songVars, userVars, playlistVars, socialVars, docVars, accountVars, now>>
  /\ UNCHANGED <<comments, loadVars, userActive, playerVars, isFeatured>>

\* POST /admin/songs/:id/edit with form = [isPremium, isActive] and valid
\* title, artist and genre
AdminEditSong(u, id, form) ==
  /\ IF ~requireAdmin(u)
       THEN /\ resp' = Response("admin.editSong", u, id, "HomeRedirect")
            /\ UNCHANGED <<isPremium, isActive>>
       ELSE IF id \notin songDocs
       THEN /\ resp' = Response("admin.editSong", u, id, "NotFound")
            /\ UNCHANGED <<isPremium, isActive>>
       ELSE /\ isPremium' = [isPremium EXCEPT ![id] = form.isPremium]
            /\ isActive' = [isActive EXCEPT ![id] = form.isActive]
            /\ resp' = Response("admin.editSong", u, id, "OK")
  /\ UNCHANGED <<likes, dislikes, playCount, userVars, playlistVars, socialVars>>
  /\ UNCHANGED <<songDocs, playlistDocs, accountVars, now>>
  /\ UNCHANGED <<comments, loadVars, adminVars, playerVars, isFeatured>>

\* DELETE /admin/songs/:id
AdminDeleteSong(u, id) ==
  /\ IF ~requireAdmin(u)
       THEN /\ resp' = Response("admin.deleteSong", u, id, "HomeRedirect")
            /\ UNCHANGED songDocs
       ELSE IF id \notin songDocs
       THEN /\ resp' = Response("admin.deleteSong", u, id, "NotFound")
            /\ UNCHANGED songDocs
       ELSE /\ songDocs' = songDocs \ {id}
            /\ resp' = Response("admin.deleteSong", u, id, "OK")
  /\ UNCHANGED <<songVars, userVars, playlistVars, socialVars>>
  /\ UNCHANGED <<playlistDocs, isActive, accountVars, now>>
  /\ UNCHANGED <<comments, loadVars, adminVars, playerVars, isFeatured>>

\* GET /songs/:id, the song detail page
GetSongPage(u, id) ==
  /\ resp' = Response("song.page", u, id,
       IF id \notin songDocs THEN "NotFound"
       ELSE IF isPremium[id] /\ ~checkPremium(u) THEN "PremiumRequired"
       ELSE "OK")
  /\ UNCHANGED <<songVars, userVars, playlistVars>>
  /\ UNCHANGED <<socialVars, docVars, accountVars, now>>
  /\ UNCHANGED <<comments, loadVars, adminVars, playerVars, isFeatured>>

\* GET /api/songs/:id
GetSongApi(u, id) ==
  /\ resp' = Response("song.api", u, id,
       IF id \notin songDocs THEN "NotFound"
       ELSE IF isPremium[id] /\ ~checkPremium(u) THEN "PremiumRequired"
       ELSE "OK")
  /\ UNCHANGED <<songVars, userVars, playlistVars>>
  /\ UNCHANGED <<socialVars, docVars, accountVars, now>>
  /\ UNCHANGED <<comments, loadVars, adminVars, playerVars, isFeatured>>

\* userSchema.methods.addToHistory
HistoryLimit == 100
AddToHistoryWithoutSlice(h, songId, dur, playedAt) ==
  <<[song |-> songId, playedAt |-> playedAt, duration |-> dur]>> \o h

addToHistory(h, songId, dur, playedAt) ==
  LET unshifted == <<[song |-> songId, playedAt |-> playedAt, duration |-> dur]>> \o h
  IN IF Len(unshifted) > HistoryLimit THEN SubSeq(unshifted, 1, HistoryLimit)
     ELSE unshifted

\* GET /songs/:id/stream
GetSongStreamCountingDenied(u, id) ==
  /\ IF id \notin songDocs
       THEN /\ resp' = Response("song.stream", u, id, "NotFound")
            /\ UNCHANGED <<playCount, listeningHistory, now>>
       ELSE /\ playCount' = [playCount EXCEPT ![id] = @ + 1]
            /\ IF isPremium[id] /\ ~checkPremium(u)
                 THEN /\ resp' = Response("song.stream", u, id, "PremiumRequired")
                      /\ UNCHANGED <<listeningHistory, now>>
                 ELSE /\ IF u # Undefined /\ u \in DOMAIN accounts
                           THEN /\ listeningHistory' = [listeningHistory EXCEPT
                                      ![u] = addToHistory(@, id, SongDuration[id], now)]
                                /\ now' = now + 1
                           ELSE UNCHANGED <<listeningHistory, now>>
                      /\ resp' = Response("song.stream", u, id, "OK")
  /\ UNCHANGED <<likes, dislikes, isPremium, session, subscription, playlistVars>>
  /\ UNCHANGED <<socialVars, docVars, accountVars>>
  /\ UNCHANGED <<comments, loadVars, adminVars, playerVars, isFeatured>>

GetSongStream(u, id) ==
  /\ IF id \notin songDocs
       THEN /\ resp' = Response("song.stream", u, id, "NotFound")
            /\ UNCHANGED <<playCount, listeningHistory, now>>
       ELSE IF isPremium[id] /\ ~checkPremium(u)
       THEN /\ resp' = Response("song.stream", u, id, "PremiumRequired")
            /\ UNCHANGED <<playCount, listeningHistory, now>>
       ELSE /\ playCount' = [playCount EXCEPT ![id] = @ + 1]
            /\ IF u # Undefined /\ u \in DOMAIN accounts
                 THEN /\ listeningHistory' = [listeningHistory EXCEPT
                            ![u] = addToHistory(@, id, SongDuration[id], now)]
                      /\ now' = now + 1
                 ELSE UNCHANGED <<listeningHistory, now>>
            /\ resp' = Response("song.stream", u, id, "OK")
  /\ UNCHANGED <<likes, dislikes, isPremium, session, subscription, playlistVars>>
  /\ UNCHANGED <<socialVars, docVars, accountVars>>
  /\ UNCHANGED <<comments, loadVars, adminVars, playerVars, isFeatured>>

\* req.body.text: lead and trail count the whitespace characters at its two
\* ends, core the characters from the first to the last one that is not
\* whitespace (a text of whitespace only has core = 0 and trail = 0)
Text(lead, core, trail) == [lead |-> lead, core |-> core, trail |-> trail]
Length(t) == t.lead + t.core + t.trail

\* the sanitizer body('text').trim()
trim(t) == Text(0, t.core, 0)

\* the validator isLength({min: 1, max: 500})
TextLimit == 500
IsLengthOffByOne(t) == Length(t) >= 1 /\ Length(t) <= TextLimit + 1

isLength(t) == Length(t) >= 1 /\ Length(t) <= TextLimit

\* POST /songs/:id/comments
PostSongComment(u, id, text) ==
  /\ IF ~requireAuth(u)
       THEN /\ resp' = Response("song.comment", u, id, "LoginRedirect")
            /\ UNCHANGED comments
       ELSE IF ~isLength(trim(text))
       THEN /\ resp' = Response("song.comment", u, id, "ValidationFailed")
            /\ UNCHANGED comments
       ELSE IF id \notin songDocs
       THEN /\ resp' = Response("song.comment", u, id, "NotFound")
            /\ UNCHANGED comments
       ELSE /\ comments' = [comments EXCEPT
                               ![id] = Push(@, [user |-> u, text |-> trim(text)])]
            /\ resp' = Response("song.comment", u, id, "OK")
  /\ UNCHANGED <<songVars, userVars, playlistVars>>
  /\ UNCHANGED <<socialVars, docVars, accountVars, now>>
  /\ UNCHANGED <<loadVars, adminVars, playerVars, isFeatured>>

\* ------------------------------------------- song requests that overlap
\* Song.findById: the copy of the stored document that a request works on
Stored(id) == [likes |-> likes[id], dislikes |-> dislikes[id],
               playCount |-> playCount[id], version |-> version[id]]

\* loaded without its i-th request
Saved(i) == SubSeq(loaded, 1, i - 1) \o SubSeq(loaded, i + 1, Len(loaded))

\* POST /songs/:id/like and POST /songs/:id/dislike up to Song.findById
PostSongToggleFind(route, u, id) ==
  /\ IF ~requireAuth(u)
       THEN /\ resp' = Response(route, u, id, "LoginRedirect")
            /\ UNCHANGED loaded
       ELSE IF id \notin songDocs
       THEN /\ resp' = Response(route, u, id, "NotFound")
            /\ UNCHANGED loaded
       ELSE /\ loaded' = Append(loaded, [route |-> route, user |-> u, id |-> id,
                                         copy |-> Stored(id)])
            /\ UNCHANGED resp
  /\ UNCHANGED <<songVars, userVars, playlistVars, socialVars, docVars, accountVars, now>>
  /\ UNCHANGED <<comments, version, adminVars, playerVars, isFeatured>>

\* GET /songs/:id/stream of an anonymous caller up to Song.findById and the
\* premium check
GetSongStreamFind(id) ==
  /\ IF id \notin songDocs
       THEN /\ resp' = Response("song.stream", Undefined, id, "NotFound")
            /\ UNCHANGED loaded
       ELSE IF isPremium[id] /\ ~checkPremium(Undefined)
       THEN /\ resp' = Response("song.stream", Undefined, id, "PremiumRequired")
            /\ UNCHANGED loaded
       ELSE /\ loaded' = Append(loaded, [route |-> "song.stream", user |-> Undefined,
                                         id |-> id, copy |-> Stored(id)])
            /\ UNCHANGED resp
  /\ UNCHANGED <<songVars, userVars, playlistVars, socialVars, docVars, accountVars, now>>
  /\ UNCHANGED <<comments, version, adminVars, playerVars, isFeatured>>

\* what the method of the request changes in its copy c
Modified(r) ==
  LET c == r.copy
      t == IF r.route = "song.like" THEN toggleLike(c.likes, c.dislikes, r.user)
           ELSE IF r.route = "song.dislike" THEN toggleDislike(c.likes, c.dislikes, r.user)
           ELSE [likes |-> c.likes, dislikes |-> c.dislikes]
  IN [likes |-> t.likes, dislikes |-> t.dislikes,
      playCount |-> IF r.route = "song.stream" THEN c.playCount + 1 ELSE c.playCount,
      version |-> c.version]

\* document.save() writes the paths that were modified.  An array that was
\* pushed to is sent as $push of the new element, an array that was spliced
\* as $set of the whole array; a number is sent as $set.  A spliced array
\* makes the update conditional on the stored __v being the loaded one, and
\* every array change increments __v.
Pushed(c, m) == Len(m) > Len(c)
Spliced(c, m) == Len(m) < Len(c)
Versioned(c, m) == Spliced(c.likes, m.likes) \/ Spliced(c.dislikes, m.dislikes)
WritePath(stored, c, m) ==
  IF Pushed(c, m) THEN stored \o SubSeq(m, Len(c) + 1, Len(m))
  ELSE IF Spliced(c, m) THEN m
  ELSE stored

SaveIncrementing(stored, c, m) ==
  [ok |-> TRUE,
   doc |-> [likes |-> WritePath(stored.likes, c.likes, m.likes),
            dislikes |-> WritePath(stored.dislikes, c.dislikes, m.dislikes),
            playCount |-> stored.playCount + (m.playCount - c.playCount),
            version |-> IF m.likes # c.likes \/ m.dislikes # c.dislikes
                          THEN stored.version + 1 ELSE stored.version]]

save(stored, c, m) ==
  IF Versioned(c, m) /\ stored.version # c.version
    THEN [ok |-> FALSE, doc |-> stored]
    ELSE [ok |-> TRUE,
          doc |-> [likes |-> WritePath(stored.likes, c.likes, m.likes),
                   dislikes |-> WritePath(stored.dislikes, c.dislikes, m.dislikes),
                   playCount |-> IF m.playCount # c.playCount THEN m.playCount
                                 ELSE stored.playCount,
                   version |-> IF m.likes # c.likes \/ m.dislikes # c.dislikes
                                 THEN stored.version + 1 ELSE stored.version]]

\* the i-th loaded request from its method call on: the method modifies the
\* copy and saves it, and the route answers (500 when save() rejects)
SongSave(i) ==
  LET r == loaded[i]
      w == save(Stored(r.id), r.copy, Modified(r))
  IN /\ loaded' = Saved(i)
     /\ likes' = [likes EXCEPT ![r.id] = w.doc.likes]
     /\ dislikes' = [dislikes EXCEPT ![r.id] = w.doc.dislikes]
     /\ playCount' = [playCount EXCEPT ![r.id] = w.doc.playCount]
     /\ version' = [version EXCEPT ![r.id] = w.doc.version]
     /\ resp' = Response(r.route, r.user, r.id, IF w.ok THEN "OK" ELSE "Error")
     /\ UNCHANGED <<isPremium, userVars, playlistVars, socialVars, docVars, accountVars, now>>
     /\ UNCHANGED <<comments, adminVars, playerVars, isFeatured>>

\* ---------------------------------------------------------- playlist listings
\* Playlist.find({$or: [{createdBy: userId}, {'collaborators.user': userId}]})
FindOwn(userId) ==
  {p \in playlistDocs : createdBy = userId \/ FindCollaborator(collaborators, userId) # 0}

\* playlistSchema.statics.getPublic
getPublic == {p \in playlistDocs : isPublic}

\* playlistSchema.statics.getFeatured
GetFeaturedOfAnyVisibility == {p \in playlistDocs : isFeatured}

getFeatured == {p \in playlistDocs : isPublic /\ isFeatured}

\* Playlist.find({isPublic: true, $text: {$search: query}}): the text index
\* holds the name, and a query matches the playlist it names
SearchPlaylists(query) == {p \in playlistDocs : isPublic /\ query = name}

\* the response of a listing: own holds the playlists of the caller's own
\* listing, listed those of the public, featured and search listings
ListResponse(route, user, status, own, listed) ==
  [route |-> route, user |-> user, id |-> "none", song |-> "none", status |-> status,
   own |-> own, listed |-> listed]

\* GET /playlists
GetPlaylists(u) ==
  /\ resp' = IF ~requireAuth(u)
               THEN ListResponse("playlist.index", u, "LoginRedirect", {}, {})
               ELSE ListResponse("playlist.index", u, "OK", FindOwn(u),
                                 getPublic \cup getFeatured)
  /\ UNCHANGED <<songVars, userVars, playlistVars>>
  /\ UNCHANGED <<socialVars, docVars, accountVars, now>>
  /\ UNCHANGED <<comments, loadVars, adminVars, playerVars, isFeatured>>

\* GET /playlists/public
GetPublicPlaylists(u) ==
  /\ resp' = ListResponse("playlist.public", u, "OK", {}, getPublic)
  /\ UNCHANGED <<songVars, userVars, playlistVars>>
  /\ UNCHANGED <<socialVars, docVars, accountVars, now>>
  /\ UNCHANGED <<comments, loadVars, adminVars, playerVars, isFeatured>>

\* GET /api/playlists
ApiPlaylists(u) ==
  /\ resp' = IF ~requireAuth(u)
               THEN ListResponse("api.playlists", u, "LoginRedirect", {}, {})
               ELSE ListResponse("api.playlists", u, "OK", FindOwn(u), {})
  /\ UNCHANGED <<songVars, userVars, playlistVars>>
  /\ UNCHANGED <<socialVars, docVars, accountVars, now>>
  /\ UNCHANGED <<comments, loadVars, adminVars, playerVars, isFeatured>>

\* GET /api/playlists/public
ApiPublicPlaylists(u) ==
  /\ resp' = ListResponse("api.public", u, "OK", {}, getPublic)
  /\ UNCHANGED <<songVars, userVars, playlistVars>>
  /\ UNCHANGED <<socialVars, docVars, accountVars, now>>
  /\ UNCHANGED <<comments, loadVars, adminVars, playerVars, isFeatured>>

\* GET /api/playlists/featured
ApiFeaturedPlaylists(u) ==
  /\ resp' = ListResponse("api.featured", u, "OK", {}, getFeatured)
  /\ UNCHANGED <<songVars, userVars, playlistVars>>
  /\ UNCHANGED <<socialVars, docVars, accountVars, now>>
  /\ UNCHANGED <<comments, loadVars, adminVars, playerVars, isFeatured>>

\* GET /api/search?q=query&type=type, its playlists; query "" is no query
ApiSearch(u, query, type) ==
  /\ resp' = IF query = ""
               THEN ListResponse("api.search", u, "QueryRequired", {}, {})
               ELSE ListResponse("api.search", u, "OK", {},
                      IF type \in {"all", "playlists"} THEN SearchPlaylists(query) ELSE {})
  /\ UNCHANGED <<songVars, userVars, playlistVars>>
  /\ UNCHANGED <<socialVars, docVars, accountVars, now>>
  /\ UNCHANGED <<comments, loadVars, adminVars, playerVars, isFeatured>>

\* ------------------------------------------------------------ initial state
\* the Song documents after upload, the users after registration, the
\* playlist after POST /playlists/create by its owner
Names == {"mix", "road"}

InitSong ==
  /\ likes = [s \in SongIds |-> <<>>]
  /\ dislikes = [s \in SongIds |-> <<>>]
  /\ playCount = [s \in SongIds |-> 0]
  /\ songDocs = SongIds
  /\ isActive = [s \in SongIds |-> TRUE]
  /\ comments = [s \in SongIds |-> <<>>]
  /\ version = [s \in SongIds |-> 0]
  /\ loaded = <<>>

InitPlaylistFields ==
  /\ playlistDocs = {PlaylistId}
  /\ name = "mix"
  /\ songs = <<>>
  /\ duration = 0
  /\ playlistLikes = <<>>
  /\ followers = <<>>
  /\ playlistPlayCount = 0

InitPlaylist ==
  /\ InitPlaylistFields
  /\ isFeatured = FALSE

\* every user has registered under a name and an email of their own
InitAccounts ==
  /\ accounts = [u \in Users |-> [username |-> u, email |-> u]]
  /\ inflight = <<>>

\* the player of a page that has just loaded
InitPlayer ==
  /\ playQueue = <<>>
  /\ currentQueueIndex = 0
  /\ repeatMode = "none"
  /\ isShuffled = FALSE
  /\ currentSong = "null"
  /\ isPlaying = FALSE

\* the users and the clock, and no request answered yet
InitUsers ==
  /\ userRole = [u \in Users |-> IF u \in Admins THEN "admin" ELSE "user"]
  /\ userActive = [u \in Users |-> TRUE]
  /\ listeningHistory = [u \in Users |-> <<>>]
  /\ now = 0
  /\ resp = NoResponse
  /\ prev = NoResponse

InitBase ==
  /\ InitSong
  /\ InitPlayer
  /\ InitPlaylist
  /\ InitUsers

\* ------------------------------------------------- Song likes and dislikes
SongCallers == {"u1", "u2", Undefined}
LikeSongs == {"s1", NoSong}

SongInit ==
  /\ InitBase
  /\ isPremium = [s \in SongIds |-> FALSE]
  /\ subscription = [u \in Users |-> FreeSubscription]
  /\ session = [u \in Users |-> SessionUser(subscription[u], userRole[u])]
  /\ InitAccounts
  /\ collaborators = <<>>
  /\ isPublic = TRUE
  /\ isCollaborative = FALSE

SongLike == \E u \in SongCallers, id \in LikeSongs : PostSongLike(u, id) /\ prev' = resp
SongDislike == \E u \in SongCallers, id \in LikeSongs : PostSongDislike(u, id) /\ prev' = resp

SongNext == SongLike \/ SongDislike

SongSpec == SongInit /\ [][SongNext]_vars

\* C1: no user is ever in both likes and dislikes of a song, and a completed
\* toggleLike(U) followed directly by a completed toggleDislike(U) on the
\* same song leaves U in dislikes and not in likes.
C1_MutualExclusion ==
  /\ \A s \in SongIds : Range(likes[s]) \cap Range(dislikes[s]) = {}
  /\ \A u \in Users, s \in SongIds :
       (/\ prev = Response("song.like", u, s, "OK")
        /\ resp = Response("song.dislike", u, s, "OK"))
       => (u \in Range(dislikes[s]) /\ u \notin Range(likes[s]))

\* a user who disliked, then liked, then disliked again
C1_Witness ==
  /\ prev = Response("song.like", "u1", "s1", "OK")
  /\ resp = Response("song.dislike", "u1", "s1", "OK")
  /\ "u1" \in Range(dislikes["s1"])
  /\ "u2" \in Range(likes["s1"])

\* C15: whether U is in likes, in dislikes or in neither, two consecutive
\* toggleLike(U) calls leave U's membership in likes as it was before the
\* first, and every other user's membership in likes and dislikes unchanged.
C15_ToggleLikeTwice ==
  \A s \in SongIds, u \in Users :
    LET once == toggleLike(likes[s], dislikes[s], u)
        twice == toggleLike(once.likes, once.dislikes, u)
    IN /\ u \in Range(twice.likes) <=> u \in Range(likes[s])
       /\ \A v \in Users \ {u} :
            /\ v \in Range(twice.likes) <=> v \in Range(likes[s])
            /\ v \in Range(twice.dislikes) <=> v \in Range(dislikes[s])

\* u1 has sent two like requests in a row for a song that u2 dislikes and
\* u1 had disliked; u1 is in neither array
C15_Witness ==
  /\ prev = Response("song.like", "u1", "s1", "OK")
  /\ resp = Response("song.like", "u1", "s1", "OK")
  /\ "u1" \notin Range(likes["s1"]) \cup Range(dislikes["s1"])
  /\ "u2" \in Range(dislikes["s1"])

\* ------------------------------------------- Playlist permissions and routes
PolicyCollaborators == {"u1", "u2"}
PolicySongs == {"s1", NoSong}
PlaylistIds == {PlaylistId, NoPlaylist}
EditForms == [name : Names \cup {""}, isPublic : BOOLEAN, isCollaborative : BOOLEAN]
PolicyOrders == {<<[songId |-> "s1", newOrder |-> n]>> : n \in 1..MaxOrder}

\* orders stay within OrderCap so that the state space is finite
OrderCap == MaxOrder + 2
BelowCap == \A i \in 1..Len(songs) : songs[i].order < OrderCap

PolicyInit ==
  /\ InitBase
  /\ isPremium = [s \in SongIds |-> FALSE]
  /\ subscription = [u \in Users |-> FreeSubscription]
  /\ session = [u \in Users |-> SessionUser(subscription[u], userRole[u])]
  /\ InitAccounts
  /\ collaborators = <<>>
  /\ isPublic \in BOOLEAN
  /\ isCollaborative \in BOOLEAN

PolicyPage == \E u \in Callers, id \in PlaylistIds : GetPlaylistPage(u, id) /\ UNCHANGED prev
PolicyApi == \E u \in Callers, id \in PlaylistIds : GetPlaylistApi(u, id) /\ UNCHANGED prev
PolicyEdit == \E u \in Callers, id \in PlaylistIds, form \in EditForms :
                PostEditPlaylist(u, id, form) /\ UNCHANGED prev
PolicyAddSong == \E u \in Callers, id \in PlaylistIds, songId \in PolicySongs :
                   BelowCap /\ PostAddSong(u, id, songId) /\ UNCHANGED prev
PolicyDeleteSong == \E u \in Callers, id \in PlaylistIds, songId \in PolicySongs :
                      DeleteSong(u, id, songId) /\ UNCHANGED prev
PolicyReorder == \E u \in Callers, id \in PlaylistIds, songOrders \in PolicyOrders :
                   PostReorder(u, id, songOrders) /\ UNCHANGED prev
PolicyAddCollaborator == \E userId \in PolicyCollaborators, role \in Roles :
                           AddCollaborator(userId, role) /\ UNCHANGED prev
PolicyRemoveCollaborator == \E userId \in PolicyCollaborators :
                              RemoveCollaborator(userId) /\ UNCHANGED prev

PolicyNext ==
  \/ PolicyPage
  \/ PolicyApi
  \/ PolicyEdit
  \/ PolicyAddSong
  \/ PolicyDeleteSong
  \/ PolicyReorder
  \/ PolicyAddCollaborator
  \/ PolicyRemoveCollaborator

PolicySpec == PolicyInit /\ [][PolicyNext]_vars

IsCollaborator(u) == \E i \in 1..Len(collaborators) : collaborators[i].user = u
IsEditor(u) == \E i \in 1..Len(collaborators) :
                 collaborators[i].user = u /\ collaborators[i].role = "editor"

\* C2: for an authenticated user U, canEdit is true exactly when U is the
\* owner, or the playlist is collaborative and U is listed as an editor.
C2_CanEdit ==
  \A u \in Users :
    Truthy(canEdit(u)) <=> (u = createdBy \/ (isCollaborative /\ IsEditor(u)))

\* a public collaborative playlist that lists its owner as a viewer: the owner
\* edits, the stranger u3 was just refused
C2_Witness ==
  /\ isPublic /\ isCollaborative
  /\ \E i \in 1..Len(collaborators) :
       collaborators[i] = [user |-> createdBy, role |-> "viewer"]
  /\ IsEditor("u2")
  /\ Truthy(canEdit(createdBy)) /\ Truthy(canEdit("u2")) /\ ~Truthy(canEdit("u3"))
  /\ resp = SongResponse("playlist.addSong", "u3", PlaylistId, "s1", "Forbidden")

\* C3: every add-song, remove-song, reorder and edit request of an
\* authenticated user for whom canEdit is false is answered Forbidden and
\* leaves the stored playlist unchanged.
C3_ForbiddenBeforeMutation ==
  [][(/\ resp'.route \in {"playlist.addSong", "playlist.removeSong",
                          "playlist.reorder", "playlist.edit"}
       /\ resp'.user \in Users /\ resp'.id = PlaylistId
       /\ ~Truthy(canEdit(resp'.user)))
     => (resp'.status = "Forbidden" /\ UNCHANGED playlistVars)]_vars

\* C4: canView and canEdit never throw and return a boolean for every user
\* id, the absent one included; for the absent id canEdit is false and
\* canView is false on a private playlist.
C4_Total ==
  /\ \A u \in Callers : canEdit(u) \in {JsTrue, JsFalse} /\ canView(u) \in {JsTrue, JsFalse}
  /\ canEdit(Undefined) = JsFalse
  /\ ~isPublic => canView(Undefined) = JsFalse

\* C5: an anonymous request for the playlist's detail, by the page route or
\* the API route, succeeds when the playlist is public and is refused as
\* Forbidden when it is private.
C5_AnonymousDetail ==
  (resp.route \in {"playlist.page", "playlist.api"}
     /\ resp.user = Undefined /\ resp.id = PlaylistId)
  => resp.status = (IF isPublic THEN "OK" ELSE "Forbidden")

C13_OwnerNotCollaborator ==
  /\ ~IsCollaborator(createdBy)
  /\ \A role \in Roles : addCollaborator(collaborators, createdBy, role) = collaborators

\* C14: each user id appears at most once among the collaborators;
\* addCollaborator of a listed user changes only that entry's role, to the
\* given role, and not the length of the list; removeCollaborator removes
\* that user's entry and no other.
C14_OneEntryPerUser ==
  /\ \A i, j \in 1..Len(collaborators) :
       collaborators[i].user = collaborators[j].user => i = j
  /\ \A u \in Users, role \in Roles :
       LET added == addCollaborator(collaborators, u, role)
       IN IF IsCollaborator(u)
            THEN /\ Len(added) = Len(collaborators)
                 /\ \A i \in 1..Len(added) :
                      /\ added[i].user = collaborators[i].user
                      /\ added[i].role = IF collaborators[i].user = u THEN role
                                         ELSE collaborators[i].role
            ELSE added = Append(collaborators, [user |-> u, role |-> role])
  /\ \A u \in Users :
       LET removed == removeCollaborator(collaborators, u)
       IN /\ \A i \in 1..Len(removed) : removed[i].user # u
          /\ Len(removed) = Len(collaborators) - (IF IsCollaborator(u) THEN 1 ELSE 0)
          /\ \A i \in 1..Len(collaborators) :
               collaborators[i].user # u =>
                 \E j \in 1..Len(removed) : removed[j] = collaborators[i]

\* u2, listed first, has been given the role viewer after u1 was listed
C14_Witness ==
  /\ resp = Response("playlist.addCollaborator", "u2", PlaylistId, "OK")
  /\ collaborators = <<[user |-> "u2", role |-> "viewer"],
                       [user |-> "u1", role |-> "editor"]>>

\* ------------------------------------------------------ Playlist membership
\* a collaborative playlist whose owner u1 has made u2 an editor
MemberCallers == {"u1", "u2"}
MemberSongs == SongIds \cup {NoSong}
Assignments == [songId : SongIds, newOrder : 1..MaxOrder]
\* songOrders arrays that name each song at most once
SongOrders ==
  {so \in UNION {[1..n -> Assignments] : n \in 1..MaxAssign} :
     \A i, j \in 1..Len(so) : so[i].songId = so[j].songId => i = j}

MemberInit ==
  /\ InitBase
  /\ isPremium = [s \in SongIds |-> FALSE]
  /\ subscription = [u \in Users |-> FreeSubscription]
  /\ session = [u \in Users |-> SessionUser(subscription[u], userRole[u])]
  /\ InitAccounts
  /\ collaborators = <<[user |-> "u2", role |-> "editor"]>>
  /\ isPublic = TRUE
  /\ isCollaborative = TRUE

MemberAddSong == \E u \in MemberCallers, songId \in MemberSongs :
                   BelowCap /\ PostAddSong(u, PlaylistId, songId) /\ UNCHANGED prev
MemberDeleteSong == \E u \in {createdBy}, songId \in MemberSongs :
                      DeleteSong(u, PlaylistId, songId) /\ UNCHANGED prev
MemberReorder == \E u \in {createdBy}, songOrders \in SongOrders :
                   PostReorder(u, PlaylistId, songOrders) /\ UNCHANGED prev

MemberNext == MemberAddSong \/ MemberDeleteSong \/ MemberReorder

MemberSpec == MemberInit /\ [][MemberNext]_vars

Members == {songs[i].song : i \in 1..Len(songs)}
NoDuplicateSongs == \A i, j \in 1..Len(songs) : songs[i].song = songs[j].song => i = j

\* C8: addSong of a song that is already a member fails with AlreadyExists
\* and leaves the membership list unchanged, so no song id ever appears
\* twice in the membership.
C8_AlreadyExists ==
  /\ []NoDuplicateSongs
  /\ [][(/\ resp'.route = "playlist.addSong" /\ resp'.user \in Users
           /\ resp'.id = PlaylistId /\ resp'.song \in Members)
         => (resp'.status = "AlreadyExists" /\ songs' = songs)]_vars

\* a second add of a member of a two-song playlist was refused
C8_Witness ==
  /\ resp.route = "playlist.addSong" /\ resp.status = "AlreadyExists"
  /\ resp.song \in Members
  /\ Len(songs) >= 2

\* C9: the playlist's duration equals the sum of the durations of its
\* current member songs, 0 when it has none.
C9_Duration == duration = Sum(SongDuration, Members)

\* C10: after a successful addSong the new entry is the last one, its order
\* key is strictly greater than every other entry's and its addedBy is the
\* caller.
C10_Appended ==
  (resp.route = "playlist.addSong" /\ resp.status = "OK") =>
    /\ Len(songs) > 0
    /\ songs[Len(songs)].song = resp.song
    /\ songs[Len(songs)].addedBy = resp.user
    /\ \A i \in 1..(Len(songs) - 1) : songs[i].order < songs[Len(songs)].order

\* the editor u2 added a third song after a reorder had raised the keys
C10_Witness ==
  /\ resp.route = "playlist.addSong" /\ resp.status = "OK" /\ resp.user = "u2"
  /\ Len(songs) = 3
  /\ songs[3].order > 3
  /\ songs[1].addedBy = "u1"

\* the songOrders arrays reorderSongs is applied to in every reachable
\* playlist: one or two assignments, a song named at most once, the id of no
\* song included
ReorderBodies ==
  {so \in UNION {[1..n -> [songId : MemberSongs, newOrder : 1..MaxOrder]] : n \in 1..2} :
     \A i, j \in 1..Len(so) : so[i].songId = so[j].songId => i = j}

Sorted(ss) == \A i, j \in 1..Len(ss) : i < j => ss[i].order <= ss[j].order
NoTies(ss) == \A i, j \in 1..Len(ss) : ss[i].order = ss[j].order => i = j
Named(so, songId) == \E k \in 1..Len(so) : so[k].songId = songId
NewOrderOf(so, songId) == so[CHOOSE k \in 1..Len(so) : so[k].songId = songId].newOrder

\* what reorderSongs(so) is to make of the membership list ss
ReorderContract(ss, so) ==
  LET r == reorderSongs(ss, so)
  IN /\ Len(r) = Len(ss)
     /\ \A i \in 1..Len(ss) : \E j \in 1..Len(r) :
          /\ r[j].song = ss[i].song
          /\ r[j].addedBy = ss[i].addedBy
          /\ r[j].order = IF Named(so, ss[i].song) THEN NewOrderOf(so, ss[i].song)
                          ELSE ss[i].order
     /\ Sorted(r)

\* C11: reorderSongs sets the order key of every member named in an
\* assignment to its newOrder, leaves the unmentioned members' keys and the
\* set of members unchanged, ignores assignments naming a non-member, and
\* leaves the list sorted ascending by order key; [S1:1, S2:2, S3:3] with
\* {S3->1, S1->3} yields [S3, S2, S1].
C11_Reorder ==
  /\ \A so \in ReorderBodies : ReorderContract(songs, so)
  /\ (resp.route = "playlist.reorder" /\ resp.status = "OK") => Sorted(songs)
  /\ reorderSongs(<<[song |-> "s1", addedBy |-> "u1", order |-> 1],
                    [song |-> "s2", addedBy |-> "u1", order |-> 2],
                    [song |-> "s3", addedBy |-> "u1", order |-> 3]>>,
                  <<[songId |-> "s3", newOrder |-> 1], [songId |-> "s1", newOrder |-> 3]>>)
       = <<[song |-> "s3", addedBy |-> "u1", order |-> 1],
           [song |-> "s2", addedBy |-> "u1", order |-> 2],
           [song |-> "s1", addedBy |-> "u1", order |-> 3]>>

\* two reorder requests have swapped s1 and s2, the third member s3 keeping
\* its key
C11_Witness ==
  /\ resp.route = "playlist.reorder" /\ resp.status = "OK"
  /\ Len(songs) = 3
  /\ songs[1].song = "s2" /\ songs[1].order = 1
  /\ songs[2].song = "s1" /\ songs[2].order = 2
  /\ songs[3].song = "s3" /\ songs[3].order = 3

\* the newOrder values of an array of assignments are pairwise distinct
DistinctNewOrders(so) == \A i, j \in 1..Len(so) : so[i].newOrder = so[j].newOrder => i = j

\* C12: a reorderSongs call whose assignments carry pairwise distinct
\* newOrder values, some members possibly unmentioned, leaves no two entries
\* of the playlist with the same order key.
C12_NoTies ==
  \A so \in ReorderBodies :
    (NoTies(songs) /\ DistinctNewOrders(so)) => NoTies(reorderSongs(songs, so))

\* ------------------------------------------------- Playlist likes, followers
\* a private playlist with the viewer u2; its owner adds songs, users like,
\* follow and play it
SocialCallers == {"u1", "u2", Undefined}
SocialSongs == {"s1"}

SocialInit ==
  /\ InitBase
  /\ isPremium = [s \in SongIds |-> FALSE]
  /\ subscription = [u \in Users |-> FreeSubscription]
  /\ session = [u \in Users |-> SessionUser(subscription[u], userRole[u])]
  /\ InitAccounts
  /\ collaborators = <<[user |-> "u2", role |-> "viewer"]>>
  /\ isPublic = FALSE
  /\ isCollaborative = FALSE

SocialLike == \E u \in SocialCallers, id \in PlaylistIds :
                PostPlaylistLike(u, id) /\ prev' = resp
SocialFollow == \E u \in SocialCallers, id \in PlaylistIds :
                  PostPlaylistFollow(u, id) /\ prev' = resp
SocialPlay == \E u \in SocialCallers :
                playlistPlayCount < MaxPlays /\ PostPlaylistPlay(u, PlaylistId) /\ prev' = resp
SocialAddSong == \E songId \in SocialSongs :
                   PostAddSong(createdBy, PlaylistId, songId) /\ prev' = resp

SocialNext == SocialLike \/ SocialFollow \/ SocialPlay \/ SocialAddSong

SocialSpec == SocialInit /\ [][SocialNext]_vars

\* two consecutive toggles of user u restore the sets of likes and followers
TogglesRestore ==
  \A u \in Users :
    /\ Range(playlistToggleLike(playlistToggleLike(playlistLikes, u), u))
         = Range(playlistLikes)
    /\ Range(toggleFollow(toggleFollow(followers, u), u)) = Range(followers)

\* C16: two consecutive toggleLike(U) calls restore the playlist's likes and
\* two consecutive toggleFollow(U) calls its followers; toggleLike never
\* changes followers, toggleFollow never changes likes, and neither changes
\* membership, collaborators or play count.
C16_PlaylistToggles ==
  /\ []TogglesRestore
  /\ [][/\ resp'.route = "playlist.like" => followers' = followers
        /\ resp'.route = "playlist.follow" => playlistLikes' = playlistLikes
        /\ resp'.route \in {"playlist.like", "playlist.follow"} =>
             UNCHANGED <<songs, collaborators, playlistPlayCount>>]_vars

\* u1 has liked and unliked a played one-song playlist that u2 likes and u1
\* follows
C16_Witness ==
  /\ prev = Response("playlist.like", "u1", PlaylistId, "OK")
  /\ resp = Response("playlist.like", "u1", PlaylistId, "OK")
  /\ playlistLikes = <<"u2">>
  /\ followers = <<"u1">>
  /\ Len(songs) = 1 /\ playlistPlayCount = 1

\* ---------------------------------------------------------- listening history
\* u1, logged in, and anonymous listeners stream the song s1
HistoryUser == "u1"
HistoryCallers == {HistoryUser, Undefined}
HistorySongs == {"s1"}

HistoryInit ==
  /\ InitBase
  /\ isPremium = [s \in SongIds |-> FALSE]
  /\ subscription = [u \in Users |-> FreeSubscription]
  /\ session = [u \in Users |-> IF u = HistoryUser THEN SessionUser(subscription[u], userRole[u])
                                 ELSE NoSession]
  /\ InitAccounts
  /\ collaborators = <<>>
  /\ isPublic = TRUE
  /\ isCollaborative = FALSE

HistoryStream == \E u \in HistoryCallers, id \in HistorySongs :
                   /\ playCount[id] < MaxCalls
                   /\ GetSongStream(u, id)
                   /\ UNCHANGED prev

HistoryNext == HistoryStream

HistorySpec == HistoryInit /\ [][HistoryNext]_vars

\* C17: after any number of addToHistory calls the listening history holds
\* at most 100 entries, most recent first: the entry of the latest call is
\* at index 0 and the entries are exactly those of the latest calls, 100 of
\* them once more than 100 calls have been made.
C17_History ==
  LET h == listeningHistory[HistoryUser]
  IN /\ Len(h) <= 100
     /\ Len(h) = IF now > 100 THEN 100 ELSE now
     /\ \A i \in 1..Len(h) : h[i].playedAt = now - i

\* the 105th stream of u1 has been served: 100 entries, the calls 5 to 104
C17_Witness ==
  /\ now = 105
  /\ resp = Response("song.stream", HistoryUser, "s1", "OK")
  /\ Len(listeningHistory[HistoryUser]) = 100
  /\ listeningHistory[HistoryUser][1].playedAt = 104
  /\ listeningHistory[HistoryUser][100].playedAt = 5

\* ------------------------------------------------------ registration, profile
\* an empty User collection; guests register, registered users change their
\* username, and requests overlap between their findOne and their write
Usernames == {"ann", "bob"} \cup ShortNames
Emails == {"ann@x", "bob@x"}

RegisterInit ==
  /\ InitBase
  /\ isPremium = [s \in SongIds |-> FALSE]
  /\ subscription = [u \in Users |-> FreeSubscription]
  /\ session = [u \in Users |-> NoSession]
  /\ accounts = [u \in {} |-> [username |-> "", email |-> ""]]
  /\ inflight = <<>>
  /\ collaborators = <<>>
  /\ isPublic = TRUE
  /\ isCollaborative = FALSE

\* the registrations in flight
Registering == {i \in 1..Len(inflight) : inflight[i].route = "auth.register"}

RegisterFind == \E username \in Usernames, email \in Emails :
                  /\ Len(inflight) < MaxInflight
                  /\ Cardinality(DOMAIN accounts) + Cardinality(Registering) < Cardinality(Users)
                  /\ PostRegisterFind(username, email)
                  /\ UNCHANGED prev
RegisterSave == \E i \in 1..Len(inflight) : PostRegisterSave(i) /\ UNCHANGED prev
ProfileFind == \E u \in Users, username \in Usernames :
                 /\ Len(inflight) < MaxInflight
                 /\ PostProfileFind(u, username)
                 /\ UNCHANGED prev
ProfileSave == \E i \in 1..Len(inflight) : PostProfileSave(i) /\ UNCHANGED prev

RegisterNext == RegisterFind \/ RegisterSave \/ ProfileFind \/ ProfileSave

RegisterSpec == RegisterInit /\ [][RegisterNext]_vars

UniqueAccounts ==
  \A a, b \in DOMAIN accounts :
    a # b => (accounts[a].username # accounts[b].username
              /\ accounts[a].email # accounts[b].email)

\* C18: no two stored users have the same username or the same email,
\* however registration and profile requests interleave between their
\* existence check and their write; a request that is rejected stores
\* nothing.
C18_UniqueAccounts ==
  /\ []UniqueAccounts
  /\ [][accounts' # accounts =>
          (resp'.route \in {"auth.register", "auth.profile"} /\ resp'.status = "OK")]_vars

\* ann and bob are registered and a request that passed its existence check
\* before the other's write has been rejected by the write
C18_Witness ==
  /\ Cardinality(DOMAIN accounts) = 2
  /\ resp.route \in {"auth.register", "auth.profile"}
  /\ resp.status = "Error"
  /\ inflight = <<>>

\* ----------------------------------------------------------- playlist deletion
\* the collaborative playlist of u1 with the editor u2: songs are added, the
\* playlist is requested and delete requests arrive from every caller
OwnerSongs == {"s1", "s2"}

OwnerAddSong == \E u \in MemberCallers, songId \in OwnerSongs :
                  PostAddSong(u, PlaylistId, songId) /\ UNCHANGED prev
OwnerApi == \E u \in Callers, id \in PlaylistIds : GetPlaylistApi(u, id) /\ UNCHANGED prev
OwnerDelete == \E u \in Callers, id \in PlaylistIds : DeletePlaylist(u, id) /\ UNCHANGED prev

OwnerNext == OwnerAddSong \/ OwnerApi \/ OwnerDelete

OwnerSpec == MemberInit /\ [][OwnerNext]_vars

\* C19: the playlist is deleted only by its owner; a delete request of any
\* other authenticated user, an editor of the collaborative playlist
\* included, is refused as Forbidden and the playlist still exists.
C19_DeletedByOwnerOnly ==
  [][/\ playlistDocs' # playlistDocs =>
          (resp'.route = "playlist.delete" /\ resp'.user = createdBy)
     /\ (/\ resp'.route = "playlist.delete"
          /\ resp'.user \in Users \ {createdBy}
          /\ resp'.id \in playlistDocs)
        => (resp'.status = "Forbidden" /\ playlistDocs' = playlistDocs)]_vars

\* the editor u2, who added a song, has been refused the deletion
C19_Witness ==
  /\ resp = Response("playlist.delete", "u2", PlaylistId, "Forbidden")
  /\ Truthy(canEdit("u2"))
  /\ \E i \in 1..Len(songs) : songs[i].addedBy = "u2"
  /\ PlaylistId \in playlistDocs

\* ------------------------------------------------------------ song catalogue
\* the administrator u3 edits and deletes songs; u2 tries to, and songs are
\* requested by id
AdminCallers == {"u2", "u3", Undefined}
AdminSongs == {"s1", "s2", NoSong}
SongForms == [isPremium : BOOLEAN, isActive : BOOLEAN]

AdminEdit == \E u \in AdminCallers, id \in AdminSongs, form \in SongForms :
               AdminEditSong(u, id, form) /\ UNCHANGED prev
AdminDelete == \E u \in AdminCallers, id \in AdminSongs :
                 AdminDeleteSong(u, id) /\ UNCHANGED prev
AdminApi == \E u \in AdminCallers, id \in AdminSongs : GetSongApi(u, id) /\ UNCHANGED prev

AdminNext == AdminEdit \/ AdminDelete \/ AdminApi

AdminSpec == SongInit /\ [][AdminNext]_vars

\* C20: no operation removes a song from the Song collection: a song taken
\* out of service only has its active flag set to false and is still
\* retrieved by id.
C20_NeverRemoved ==
  /\ songDocs = SongIds
  /\ (resp.route = "song.api" /\ resp.id \in SongIds) => resp.status # "NotFound"

\* ------------------------------------------------------------- premium gate
\* u1's subscription and the premium flags of s1 and s2 are whatever the
\* database holds; u1 and u2 log in and out, and songs are requested
GateUsers == {"u1", "u2"}
GateSongs == {"s1", "s2", NoSong}
SongRoutes == {"song.page", "song.api", "song.stream"}

GateInit ==
  /\ InitBase
  /\ isPremium \in {f \in [SongIds -> BOOLEAN] : ~f["s3"]}
  /\ subscription \in {f \in [Users -> Subscriptions] :
                         f["u2"] = FreeSubscription /\ f["u3"] = FreeSubscription}
  /\ session = [u \in Users |-> NoSession]
  /\ InitAccounts
  /\ collaborators = <<>>
  /\ isPublic = TRUE
  /\ isCollaborative = FALSE

GateCallers == (LoggedIn \cap GateUsers) \cup {Undefined}
TotalPlays == Sum(playCount, SongIds)

GateLogin == \E u \in GateUsers, passwordOk \in BOOLEAN :
               PostLogin(u, passwordOk) /\ UNCHANGED prev
GateLogout == \E u \in GateUsers : PostLogout(u) /\ UNCHANGED prev
GatePage == \E u \in GateCallers, id \in GateSongs : GetSongPage(u, id) /\ UNCHANGED prev
GateApi == \E u \in GateCallers, id \in GateSongs : GetSongApi(u, id) /\ UNCHANGED prev
GateStream == \E u \in GateCallers, id \in GateSongs :
                TotalPlays < MaxPlays /\ GetSongStream(u, id) /\ UNCHANGED prev

GateNext == GateLogin \/ GateLogout \/ GatePage \/ GateApi \/ GateStream

GateSpec == GateInit /\ [][GateNext]_vars

\* the caller is a user whose subscription is premium or pro and active
PremiumCaller(u) ==
  /\ u \in Users
  /\ subscription[u].type \in {"premium", "pro"}
  /\ subscription[u].isActive

\* C7: a song-detail or stream request for a premium song is denied when the
\* caller is anonymous or has a free or inactive subscription and granted
\* when the caller's subscription is premium or pro and active; a song that
\* is not premium is never denied by the gate.
C7_PremiumGate ==
  (resp.route \in SongRoutes /\ resp.id \in SongIds) =>
    IF isPremium[resp.id]
      THEN resp.status = (IF PremiumCaller(resp.user) THEN "OK" ELSE "PremiumRequired")
      ELSE resp.status = "OK"

\* the premium song s1 has been streamed by the subscriber u1 and is then
\* refused to an anonymous caller
C7_Witness ==
  /\ isPremium["s1"]
  /\ PremiumCaller("u1")
  /\ playCount["s1"] = 1 /\ Len(listeningHistory["u1"]) = 1
  /\ resp = Response("song.stream", Undefined, "s1", "PremiumRequired")

\* ------------------------------------------------------------ song comments
\* u1 (free) and u2 (premium) are logged in; s1 is free, s2 is premium;
\* songs are commented, liked and disliked
CommentCallers == {"u1", "u2", Undefined}
CommentSongs == {"s1", NoSong}
CommentTexts == {Text(0, 0, 0), Text(2, 0, 0), Text(0, 2, 0), Text(1, 2, 1),
                 Text(0, TextLimit, 0), Text(0, TextLimit + 1, 0),
                 Text(1, TextLimit, 0), Text(1, TextLimit - 1, 1)}
PremiumSubscription == [type |-> "premium", isActive |-> TRUE]

CommentInit ==
  /\ InitBase
  /\ isPremium = [s \in SongIds |-> s = "s2"]
  /\ subscription = [u \in Users |-> IF u = "u2" THEN PremiumSubscription
                                     ELSE FreeSubscription]
  /\ session = [u \in Users |-> SessionUser(subscription[u], userRole[u])]
  /\ InitAccounts
  /\ collaborators = <<>>
  /\ isPublic = TRUE
  /\ isCollaborative = FALSE

CommentPost == \E u \in CommentCallers, id \in CommentSongs, text \in CommentTexts :
                 /\ PostSongComment(u, id, text)
                 /\ \A s \in SongIds : Len(comments'[s]) <= MaxComments
                 /\ UNCHANGED prev
CommentLike == \E id \in CommentSongs : PostSongLike("u1", id) /\ UNCHANGED prev
CommentDislike == \E id \in CommentSongs : PostSongDislike("u1", id) /\ UNCHANGED prev
CommentNext == CommentPost \/ CommentLike \/ CommentDislike

CommentSpec == CommentInit /\ [][CommentNext]_vars

\* the comment requests of a logged-in caller on a song that exists which the
\* latest response can be the answer to
CommentRequests ==
  IF resp'.route = "song.comment" /\ resp'.user \in Users /\ resp'.id \in songDocs
    THEN {[user |-> resp'.user, id |-> resp'.id, text |-> t] : t \in CommentTexts}
    ELSE {}

\* the request is answered by one more comment at the end of the list, with
\* the caller's id and the text t, and every other song's list kept
Appends(r, t) ==
  /\ resp'.status = "OK"
  /\ comments' = [comments EXCEPT ![r.id] = Append(@, [user |-> r.user, text |-> t])]

\* the request is rejected as a validation failure and nothing is stored
Rejects ==
  /\ resp'.status = "ValidationFailed"
  /\ comments' = comments

\* C21 as stated: the length of the text as sent decides, and the text as
\* sent is what is stored.
C21_RawText ==
  [][\A r \in CommentRequests :
       PostSongComment(r.user, r.id, r.text) =>
         IF Length(r.text) >= 1 /\ Length(r.text) <= TextLimit
           THEN Appends(r, r.text)
           ELSE Rejects]_vars

\* C21: a comment request whose text, once the whitespace at its ends is
\* removed, has between 1 and 500 characters appends exactly one comment with
\* the caller's id and the trimmed text at the end of the song's list, earlier
\* comments kept in order; a request whose trimmed text is empty or longer
\* than 500 characters is a validation failure and leaves the list unchanged.
C21_TrimmedText ==
  [][\A r \in CommentRequests :
       PostSongComment(r.user, r.id, r.text) =>
         IF Length(trim(r.text)) >= 1 /\ Length(trim(r.text)) <= TextLimit
           THEN Appends(r, trim(r.text))
           ELSE Rejects]_vars

\* two comments are stored, the second one sent with whitespace at its ends,
\* and the latest request was rejected
C21_Witness ==
  /\ Len(comments["s1"]) = 2
  /\ comments["s1"][1] = [user |-> "u1", text |-> Text(0, TextLimit, 0)]
  /\ comments["s1"][2] = [user |-> "u2", text |-> Text(0, 2, 0)]
  /\ resp = Response("song.comment", "u1", "s1", "ValidationFailed")

\* --------------------------------------------------------------- play counts
\* the songs and users of CommentInit; songs are streamed, liked, disliked
\* and commented, and the admin edits s1
PlaySongs == {"s1", "s2", NoSong}
PlayText == Text(0, 2, 0)
PlayForms == {f \in [isPremium : BOOLEAN, isActive : BOOLEAN] : f.isActive}

PlayStream == \E u \in CommentCallers, id \in PlaySongs :
                /\ GetSongStream(u, id)
                /\ Sum(playCount', SongIds) <= MaxPlays
                /\ UNCHANGED prev
PlayLike == PostSongLike("u1", "s1") /\ UNCHANGED prev
PlayDislike == PostSongDislike("u1", "s1") /\ UNCHANGED prev
PlayComment == /\ PostSongComment("u1", "s1", PlayText)
               /\ Len(comments'["s1"]) < MaxComments
               /\ UNCHANGED prev
PlayEdit == \E form \in PlayForms : AdminEditSong("u3", "s1", form) /\ UNCHANGED prev

PlayNext == PlayStream \/ PlayLike \/ PlayDislike \/ PlayComment \/ PlayEdit

PlaySpec == CommentInit /\ [][PlayNext]_vars

\* the stream request that resp' answers is let through: the song exists and,
\* when it is premium, the caller has premium access
Permitted ==
  /\ resp'.id \in songDocs
  /\ isPremium[resp'.id] => PremiumCaller(resp'.user)

\* C22: playCount changes only through a permitted stream request, which
\* raises the song's playCount by exactly 1 and leaves likes, dislikes and
\* comments unchanged; a stream request that the premium gate rejects or that
\* names an unknown song changes no playCount and no listening history.
C22_PlayCount ==
  [][/\ playCount' # playCount => resp'.route = "song.stream" /\ Permitted
     /\ resp'.route = "song.stream" =>
          IF Permitted
            THEN /\ playCount' = [playCount EXCEPT ![resp'.id] = @ + 1]
                 /\ likes' = likes
                 /\ dislikes' = dislikes
                 /\ comments' = comments
            ELSE /\ playCount' = playCount
                 /\ listeningHistory' = listeningHistory]_vars

\* the premium song has been streamed once by the premium user, the free user
\* has just been refused it, and s1 carries a like and a comment
C22_Witness ==
  /\ playCount["s2"] = 1
  /\ resp = Response("song.stream", "u1", "s2", "PremiumRequired")
  /\ likes["s1"] = <<"u1">>
  /\ Len(comments["s1"]) = 1
  /\ Len(listeningHistory["u2"]) = 1
  /\ listeningHistory["u1"] = <<>>

\* ---------------------------------------------------------- overlapping saves
\* like and dislike requests of u1 and u2 and anonymous stream requests on s1
\* overlap between their findById and their save
ToggleRoutes == {"song.like", "song.dislike"}
OverlapSong == "s1"

\* a request that answers makes the response before it the previous one
Answer == prev' = IF Len(loaded') > Len(loaded) THEN prev ELSE resp

Launch ==
  /\ Len(loaded) < MaxInflight
  /\ version[OverlapSong] + playCount[OverlapSong] + Len(loaded) < MaxSaves

OverlapToggleFind == \E route \in ToggleRoutes, u \in SongCallers, id \in LikeSongs :
                       Launch /\ PostSongToggleFind(route, u, id) /\ Answer
OverlapStreamFind == \E id \in LikeSongs : Launch /\ GetSongStreamFind(id) /\ Answer
OverlapSave == \E i \in 1..Len(loaded) : SongSave(i) /\ Answer

OverlapNext == OverlapToggleFind \/ OverlapStreamFind \/ OverlapSave

OverlapSpec == SongInit /\ [][OverlapNext]_vars

\* C23 as stated: every mutation is a read-modify-write of the document, so
\* each save succeeds and stores the likes, dislikes and playCount that the
\* request computed from the copy it read.
C23_ReadModifyWrite ==
  [][\A i \in 1..Len(loaded) :
       SongSave(i) =>
         LET r == loaded[i] IN
           /\ resp'.status = "OK"
           /\ likes'[r.id] = Modified(r).likes
           /\ dislikes'[r.id] = Modified(r).dislikes
           /\ playCount'[r.id] = Modified(r).playCount]_vars

\* C23: a stream request always succeeds and stores the playCount it read
\* plus 1, whatever was stored since it read, so two stream requests that
\* both read before either writes raise playCount by 1 only; a like or
\* dislike request that succeeds changes the membership of no other user in
\* likes and dislikes.
C23_LostIncrement ==
  [][\A i \in 1..Len(loaded) :
       SongSave(i) =>
         LET r == loaded[i] IN
           IF r.route = "song.stream"
             THEN /\ resp'.status = "OK"
                  /\ playCount'[r.id] = r.copy.playCount + 1
             ELSE resp'.status = "OK" =>
                    \A w \in Users \ {r.user} :
                      /\ w \in Range(likes'[r.id]) <=> w \in Range(likes[r.id])
                      /\ w \in Range(dislikes'[r.id]) <=> w \in Range(dislikes[r.id])]_vars

\* two stream requests have been answered OK and playCount, 0 at first, is 1
C23_Witness ==
  /\ loaded = <<>>
  /\ prev = Response("song.stream", Undefined, OverlapSong, "OK")
  /\ resp = Response("song.stream", Undefined, OverlapSong, "OK")
  /\ playCount[OverlapSong] = 1

\* C24: also when a like request and a dislike request of the same user on
\* the same song overlap, no stored state has the user in both likes and
\* dislikes.
C24_ExclusionUnderOverlap ==
  \A id \in SongIds, u \in Users :
    ~(u \in Range(likes[id]) /\ u \in Range(dislikes[id]))

\* ------------------------------------------------------- playlist references
\* the collaborative playlist of u1 with the editor u2: songs are added,
\* removed and reordered, the admin edits and deletes songs, and the playlist
\* page is requested
ReferenceAddSong == \E u \in MemberCallers, songId \in OwnerSongs :
                      BelowCap /\ PostAddSong(u, PlaylistId, songId) /\ UNCHANGED prev
ReferenceRemoveSong == \E songId \in OwnerSongs :
                         DeleteSong(createdBy, PlaylistId, songId) /\ UNCHANGED prev
ReferenceReorder == \E songOrders \in SongOrders :
                      PostReorder(createdBy, PlaylistId, songOrders) /\ UNCHANGED prev
ReferenceEdit == \E id \in OwnerSongs, form \in PlayForms :
                   AdminEditSong("u3", id, form) /\ UNCHANGED prev
ReferenceDelete == \E u \in {"u2", "u3"}, id \in OwnerSongs :
                     AdminDeleteSong(u, id) /\ UNCHANGED prev
ReferencePage == \E u \in MemberCallers : GetPlaylistPage(u, PlaylistId) /\ UNCHANGED prev

ReferenceNext == ReferenceAddSong \/ ReferenceRemoveSong \/ ReferenceReorder
                   \/ ReferenceEdit \/ ReferenceDelete \/ ReferencePage

ReferenceSpec == MemberInit /\ [][ReferenceNext]_vars

\* C25: every song reference in the playlist's membership list resolves to a
\* document of the song collection, and the playlist page never fails on a
\* missing member song.
C25_ReferencesResolve ==
  /\ \A i \in 1..Len(songs) : songs[i].song \in songDocs
  /\ resp.route = "playlist.page" => resp.status # "Error"

\* ------------------------------------------------------------ stale sessions
\* u2 and u3 log in and out; whoever passes requireAdmin changes roles,
\* deactivates users and edits s1
StaleUsers == {"u2", "u3"}
StaleTargets == StaleUsers \cup {NoUser}
RoleBodies == UserRoles \cup {"owner"}
StaleCallers == (LoggedIn \cap StaleUsers) \cup {Undefined}
AdminRoutes == {"admin.userRole", "admin.userStatus", "admin.editSong"}

StaleInit ==
  /\ InitBase
  /\ isPremium = [s \in SongIds |-> FALSE]
  /\ subscription = [u \in Users |-> FreeSubscription]
  /\ session = [u \in Users |-> NoSession]
  /\ InitAccounts
  /\ collaborators = <<>>
  /\ isPublic = TRUE
  /\ isCollaborative = FALSE

StaleLogin == \E u \in StaleUsers, passwordOk \in BOOLEAN :
                PostLogin(u, passwordOk) /\ UNCHANGED prev
StaleLogout == \E u \in StaleUsers : PostLogout(u) /\ UNCHANGED prev
StaleRole == \E u \in StaleCallers, id \in StaleTargets, roleBody \in RoleBodies :
               AdminUserRole(u, id, roleBody) /\ UNCHANGED prev
StaleStatus == \E u \in StaleCallers, id \in StaleTargets, isActiveBody \in {JsTrue, JsFalse} :
                 AdminUserStatus(u, id, isActiveBody) /\ UNCHANGED prev
StaleEdit == \E u \in StaleCallers, form \in PlayForms :
               AdminEditSong(u, "s1", form) /\ UNCHANGED prev

StaleNext == StaleLogin \/ StaleLogout \/ StaleRole \/ StaleStatus \/ StaleEdit

StaleSpec == StaleInit /\ [][StaleNext]_vars

\* the session that the request answered by resp' came with holds role admin
SessionAdmin ==
  /\ resp'.user \in Users
  /\ session[resp'.user].loggedIn
  /\ session[resp'.user].role = "admin"

\* C26: a role or status change modifies no session; an admin route lets a
\* caller through exactly when the role copied into the session is admin,
\* whatever the stored role is; the session's role changes only at login and
\* logout, and a login copies the stored role of an active user.
C26_StaleSession ==
  [][/\ resp'.route \in {"admin.userRole", "admin.userStatus"} => session' = session
     /\ resp'.route \in AdminRoutes => (resp'.status # "HomeRedirect" <=> SessionAdmin)
     /\ session' # session => resp'.route \in {"auth.login", "auth.logout"}
     /\ (resp'.route = "auth.login" /\ resp'.status = "OK") =>
          /\ userActive[resp'.user]
          /\ session'[resp'.user] = SessionUser(subscription[resp'.user],
                                                userRole[resp'.user])]_vars

\* u3 has been demoted to user and deactivated, and the session that u3
\* opened before still passes requireAdmin
C26_Witness ==
  /\ userRole["u3"] = "user"
  /\ ~userActive["u3"]
  /\ session["u3"].loggedIn
  /\ session["u3"].role = "admin"
  /\ resp = Response("admin.editSong", "u3", "s1", "OK")

\* ---------------------------------------------------------- playlist privacy
\* the playlist of u1, public or private, featured or not; the owner edits
\* it, u2 becomes and stops being a collaborator, and every caller asks for
\* the listings, the search and the detail
ListingCallers == {"u1", "u2", "u3", Undefined}
Queries == Names \cup {""}
SearchTypes == {"all", "playlists", "songs"}
ListRoutes == {"playlist.index", "playlist.public", "api.playlists", "api.public",
               "api.featured", "api.search"}
DetailRoutes == {"playlist.page", "playlist.api"}

ListingInit ==
  /\ InitSong
  /\ InitPlayer
  /\ InitPlaylistFields
  /\ isFeatured \in BOOLEAN
  /\ InitUsers
  /\ isPremium = [s \in SongIds |-> FALSE]
  /\ subscription = [u \in Users |-> FreeSubscription]
  /\ session = [u \in Users |-> SessionUser(subscription[u], userRole[u])]
  /\ InitAccounts
  /\ collaborators = <<>>
  /\ isPublic \in BOOLEAN
  /\ isCollaborative \in BOOLEAN

ListingIndex == \E u \in ListingCallers : GetPlaylists(u) /\ UNCHANGED prev
ListingPublic == \E u \in ListingCallers : GetPublicPlaylists(u) /\ UNCHANGED prev
ListingApiIndex == \E u \in ListingCallers : ApiPlaylists(u) /\ UNCHANGED prev
ListingApiPublic == \E u \in ListingCallers : ApiPublicPlaylists(u) /\ UNCHANGED prev
ListingApiFeatured == \E u \in ListingCallers : ApiFeaturedPlaylists(u) /\ UNCHANGED prev
ListingSearch == \E u \in ListingCallers, query \in Queries, type \in SearchTypes :
                   ApiSearch(u, query, type) /\ UNCHANGED prev
ListingPage == \E u \in ListingCallers : GetPlaylistPage(u, PlaylistId) /\ UNCHANGED prev
ListingApi == \E u \in ListingCallers : GetPlaylistApi(u, PlaylistId) /\ UNCHANGED prev
ListingEdit == \E form \in EditForms :
                 PostEditPlaylist(createdBy, PlaylistId, form) /\ UNCHANGED prev
ListingAddCollaborator == \E role \in Roles : AddCollaborator("u2", role) /\ UNCHANGED prev
ListingRemoveCollaborator == RemoveCollaborator("u2") /\ UNCHANGED prev

ListingNext ==
  \/ ListingIndex
  \/ ListingPublic
  \/ ListingApiIndex
  \/ ListingApiPublic
  \/ ListingApiFeatured
  \/ ListingSearch
  \/ ListingPage
  \/ ListingApi
  \/ ListingEdit
  \/ ListingAddCollaborator
  \/ ListingRemoveCollaborator

ListingSpec == ListingInit /\ [][ListingNext]_vars

\* u is the owner of the playlist or one of its collaborators
OwnerOrCollaborator(u) ==
  u = createdBy \/ \E i \in 1..Len(collaborators) : collaborators[i].user = u

\* C27: a listing returns the private playlist only to its owner and its
\* collaborators: the own listing holds only playlists the caller owns or
\* collaborates on, the public, featured and search listings only public
\* playlists, and a detail request for the private playlist is answered with
\* it only when canView holds, that is for the owner and the collaborators.
C27_PrivateStaysPrivate ==
  [][/\ resp'.route \in ListRoutes =>
          /\ \A p \in resp'.own : OwnerOrCollaborator(resp'.user)
          /\ \A p \in resp'.listed : isPublic
          /\ \A p \in resp'.own \cup resp'.listed :
               ~isPublic => OwnerOrCollaborator(resp'.user)
     /\ (resp'.route \in DetailRoutes /\ resp'.status = "OK" /\ ~isPublic) =>
          /\ Truthy(canView(resp'.user))
          /\ OwnerOrCollaborator(resp'.user)]_vars

\* the private, featured playlist is in the own listing of its collaborator u2
C27_Witness ==
  /\ ~isPublic
  /\ isFeatured
  /\ resp = ListResponse("playlist.index", "u2", "OK", {PlaylistId}, {})

\* ------------------------------------------------------ membership ordering
\* C28: after any sequence of add-song, remove-song and reorder requests on
\* the playlist that was created empty, the stored membership list is in
\* non-decreasing order of the order key: a song stored before another never
\* has the larger key.
C28_StoredInKeyOrder ==
  \A i \in 1..Len(songs) : \A j \in i..Len(songs) : songs[i].order <= songs[j].order

\* s3, added last, has been moved in front of the songs added before it, and
\* a song has been removed and added again since
C28_Witness ==
  /\ Len(songs) = 3
  /\ songs[1].song = "s3"
  /\ songs[3].song = "s1"
  /\ songs[3].order > 3
  /\ resp.route = "playlist.reorder" /\ resp.status = "OK"

\* ------------------------------------------------------------ client player
\* every variable the server keeps; the player of a page changes none of them
serverVars == <<comments, loadVars, adminVars, isFeatured, songVars, userVars,
                playlistVars, socialVars, docVars, accountVars, now, resp, prev>>

\* the globals of the player script
Player ==
  [playQueue |-> playQueue, currentQueueIndex |-> currentQueueIndex,
   repeatMode |-> repeatMode, isShuffled |-> isShuffled,
   currentSong |-> currentSong, isPlaying |-> isPlaying]

\* the globals after a handler that leaves them as p
SetPlayer(p) ==
  /\ playQueue' = p.playQueue
  /\ currentQueueIndex' = p.currentQueueIndex
  /\ repeatMode' = p.repeatMode
  /\ isShuffled' = p.isShuffled
  /\ currentSong' = p.currentSong
  /\ isPlaying' = p.isPlaying

\* arr[i] of a JavaScript array, indexes from 0
At(arr, i) == IF i \in 0..(Len(arr) - 1) THEN arr[i + 1] ELSE Undefined

\* arr.splice(index, 1) with index inside the array
splice(arr, index) ==
  [i \in 1..(Len(arr) - 1) |-> IF i <= index THEN arr[i] ELSE arr[i + 1]]

\* the audio element of the player view is given a new source: it plays the
\* source it is given, and its 'playing' event sets isPlaying
AudioLoad(p) == [p EXCEPT !.isPlaying = TRUE]

\* the 'pause' event of the audio element
handlePause(p) == [p EXCEPT !.isPlaying = FALSE]

loadSong(p, song) ==
  IF song = Undefined THEN p
  ELSE AudioLoad([p EXCEPT !.currentSong = song])

play(p) == IF p.currentSong = "null" THEN p ELSE [p EXCEPT !.isPlaying = TRUE]

pause(p) == handlePause(p)

stop(p) == [p EXCEPT !.isPlaying = FALSE]

togglePlayPause(p) ==
  IF p.currentSong = "null" THEN p
  ELSE IF p.isPlaying THEN pause(p) ELSE play(p)

playPrevious(p) ==
  IF p.currentQueueIndex > 0
    THEN LET q == [p EXCEPT !.currentQueueIndex = @ - 1]
         IN  loadSong(q, At(q.playQueue, q.currentQueueIndex))
    ELSE p

PlayNextStoppingAtEnd(p) ==
  IF p.currentQueueIndex < Len(p.playQueue) - 1
    THEN LET q == [p EXCEPT !.currentQueueIndex = @ + 1]
         IN  loadSong(q, At(q.playQueue, q.currentQueueIndex))
    ELSE p

playNext(p) ==
  IF p.currentQueueIndex < Len(p.playQueue) - 1
    THEN LET q == [p EXCEPT !.currentQueueIndex = @ + 1]
         IN  loadSong(q, At(q.playQueue, q.currentQueueIndex))
    ELSE IF p.repeatMode = "all"
      THEN LET q == [p EXCEPT !.currentQueueIndex = 0]
           IN  loadSong(q, At(q.playQueue, q.currentQueueIndex))
      ELSE p

handleSongEnded(p) ==
  IF p.repeatMode = "one" THEN [p EXCEPT !.isPlaying = TRUE]
  ELSE IF p.repeatMode = "all" \/ p.currentQueueIndex < Len(p.playQueue) - 1
    THEN playNext(p)
    ELSE stop(p)

\* modes[(modes.indexOf(repeatMode) + 1) % modes.length]
modes == <<"none", "all", "one">>
indexOf(arr, v) == IF v \in Range(arr) THEN (CHOOSE i \in 1..Len(arr) : arr[i] = v) - 1 ELSE -1
toggleRepeat(p) ==
  [p EXCEPT !.repeatMode = At(modes, (indexOf(modes, @) + 1) % Len(modes))]

addToQueue(p, song) == [p EXCEPT !.playQueue = Append(@, song)]

RemoveFromQueueKeepingIndex(p, index) ==
  [p EXCEPT !.playQueue = splice(@, index)]

removeFromQueue(p, index) ==
  [p EXCEPT !.playQueue = splice(@, index),
            !.currentQueueIndex = IF @ >= index /\ @ > 0 THEN @ - 1 ELSE @]

clearQueue(p) == [p EXCEPT !.playQueue = <<>>, !.currentQueueIndex = 0]

\* playQueue.filter((_, index) => index !== currentQueueIndex)
otherSongs(p) ==
  LET keep == {i \in 1..Len(p.playQueue) : i - 1 # p.currentQueueIndex}
      nth[k \in 0..Len(p.playQueue)] ==
        IF k = 0 THEN 0 ELSE CHOOSE i \in keep : i > nth[k - 1] /\ \A j \in keep : j > nth[k - 1] => i <= j
  IN  [k \in 1..Cardinality(keep) |-> p.playQueue[nth[k]]]

\* the orders the Math.random() loop can leave n entries in
Orders(n) == {f \in [1..n -> 1..n] : \A i, j \in 1..n : f[i] = f[j] => i = j}

\* shuffleQueue, f the order the loop leaves the other songs in
shuffleQueue(p, f) ==
  IF Len(p.playQueue) <= 1 THEN p
  ELSE LET others == otherSongs(p)
       IN  [p EXCEPT !.playQueue = <<At(p.playQueue, p.currentQueueIndex)>> \o
                                     [i \in 1..Len(others) |-> others[f[i]]],
                     !.currentQueueIndex = 0]

toggleShuffle(p, f) ==
  LET q == [p EXCEPT !.isShuffled = ~@]
  IN  IF q.isShuffled /\ Len(q.playQueue) > 1 THEN shuffleQueue(q, f) ELSE q

\* the click handler of the queue item at index
QueueItemClick(p, index) ==
  LET q == [p EXCEPT !.currentQueueIndex = index]
  IN  play(loadSong(q, At(p.playQueue, index)))

\* GET /api/songs/:id as the browser of caller u receives it: data.success
ApiSongDetail(u, id) ==
  /\ id \in songDocs
  /\ ~(isPremium[id] /\ ~checkPremium(u))

\* playQueue.findIndex(s => s._id === song._id)
findIndex(arr, v) ==
  IF v \in Range(arr)
    THEN (CHOOSE i \in 1..Len(arr) : arr[i] = v /\ \A j \in 1..(i - 1) : arr[j] # v) - 1
    ELSE -1

\* window.playSong once the fetch has answered with success
playSong(p, song) ==
  IF p.currentSong = "null" \/ p.currentSong # song
    THEN LET q == IF Len(p.playQueue) = 0
                    THEN [p EXCEPT !.playQueue = <<song>>, !.currentQueueIndex = 0]
                    ELSE IF findIndex(p.playQueue, song) = -1
                      THEN [p EXCEPT !.playQueue = Append(@, song),
                                     !.currentQueueIndex = Len(p.playQueue)]
                      ELSE [p EXCEPT !.currentQueueIndex = findIndex(p.playQueue, song)]
         IN  play(loadSong(q, song))
    ELSE togglePlayPause(p)

\* --- the player of one page, driven by its listener
Listener == "u1"
RequestedSongs == SongIds \cup {NoSong}
QueueFits(p) == Len(p.playQueue) <= MaxQueue

PlayerPlaySong ==
  \E id \in RequestedSongs :
    /\ IF ApiSongDetail(Listener, id)
         THEN SetPlayer(playSong(Player, id)) /\ QueueFits(playSong(Player, id))
         ELSE UNCHANGED playerVars
    /\ UNCHANGED serverVars

PlayerAddToQueue ==
  \E song \in SongIds :
    /\ QueueFits(addToQueue(Player, song))
    /\ SetPlayer(addToQueue(Player, song))
    /\ UNCHANGED serverVars

PlayerRemoveFromQueue ==
  \E index \in 0..(Len(playQueue) - 1) :
    /\ SetPlayer(removeFromQueue(Player, index))
    /\ UNCHANGED serverVars

PlayerClearQueue == SetPlayer(clearQueue(Player)) /\ UNCHANGED serverVars

PlayerToggleShuffle ==
  \E f \in Orders(Len(otherSongs(Player))) :
    /\ SetPlayer(toggleShuffle(Player, f))
    /\ UNCHANGED serverVars

PlayerToggleRepeat == SetPlayer(toggleRepeat(Player)) /\ UNCHANGED serverVars

PlayerPlayNext == SetPlayer(playNext(Player)) /\ UNCHANGED serverVars

PlayerPlayPrevious == SetPlayer(playPrevious(Player)) /\ UNCHANGED serverVars

PlayerQueueItemClick ==
  \E index \in 0..(Len(playQueue) - 1) :
    /\ SetPlayer(QueueItemClick(Player, index))
    /\ UNCHANGED serverVars

PlayerTogglePlayPause == SetPlayer(togglePlayPause(Player)) /\ UNCHANGED serverVars

\* the audio element reaches the end of its source: 'pause', then 'ended'
AudioEnded ==
  /\ isPlaying
  /\ SetPlayer(handleSongEnded(handlePause(Player)))
  /\ UNCHANGED serverVars

PlayerNext ==
  \/ PlayerPlaySong
  \/ PlayerAddToQueue
  \/ PlayerRemoveFromQueue
  \/ PlayerClearQueue
  \/ PlayerToggleShuffle
  \/ PlayerToggleRepeat
  \/ PlayerPlayNext
  \/ PlayerPlayPrevious
  \/ PlayerQueueItemClick
  \/ PlayerTogglePlayPause
  \/ AudioEnded

PlayerSpec == CommentInit /\ [][PlayerNext]_vars

\* how often v occurs in arr
Occurrences(arr, v) == Cardinality({i \in 1..Len(arr) : arr[i] = v})

\* C29: in the client player, after any sequence of playSong, addToQueue,
\* removeFromQueue (with an index inside the queue), clearQueue, shuffle,
\* playNext, playPrevious and queue-item clicks, a non-empty playQueue has
\* 0 <= currentQueueIndex < playQueue.length, and a shuffle leaves the queue
\* a permutation of its previous entries with the previously current entry
\* at index 0.
C29_IndexInsideQueue ==
  [][/\ Len(playQueue') > 0 => currentQueueIndex' \in 0..(Len(playQueue') - 1)
     /\ (~isShuffled /\ isShuffled' /\ Len(playQueue) > 0) =>
          \A f \in Orders(Len(otherSongs(Player))) :
            SetPlayer(toggleShuffle(Player, f)) =>
              /\ \A s \in SongIds : Occurrences(playQueue', s) = Occurrences(playQueue, s)
              /\ Len(playQueue') = Len(playQueue)
              /\ At(playQueue', 0) = At(playQueue, currentQueueIndex)
              /\ currentQueueIndex' = 0]_vars

\* shuffle is on, and of the queue s1, s3 that played its last entry the
\* current entry s3 is first
C29_Witness ==
  /\ isShuffled
  /\ playQueue = <<"s3", "s1">>
  /\ currentQueueIndex = 0
  /\ currentSong = "s3"
  /\ isPlaying

\* the globals of a page that has just loaded
FreshPlayer ==
  [playQueue |-> <<>>, currentQueueIndex |-> 0, repeatMode |-> "none",
   isShuffled |-> FALSE, currentSong |-> "null", isPlaying |-> FALSE]

\* --- playback left to itself: the listener has started one song on a fresh
\* page, and from then on only adds songs to the queue and presses repeat,
\* while the audio element plays every source it is given to its end
PlaybackInit ==
  /\ InitSong
  /\ InitPlaylist
  /\ InitUsers
  /\ isPremium = [s \in SongIds |-> FALSE]
  /\ subscription = [u \in Users |-> FreeSubscription]
  /\ session = [u \in Users |-> SessionUser(subscription[u], userRole[u])]
  /\ InitAccounts
  /\ collaborators = <<>>
  /\ isPublic = TRUE
  /\ isCollaborative = FALSE
  /\ \E id \in SongIds :
       LET p == playSong(FreshPlayer, id)
       IN  /\ playQueue = p.playQueue
           /\ currentQueueIndex = p.currentQueueIndex
           /\ repeatMode = p.repeatMode
           /\ isShuffled = p.isShuffled
           /\ currentSong = p.currentSong
           /\ isPlaying = p.isPlaying

PlaybackNext ==
  \/ AudioEnded
  \/ PlayerAddToQueue
  \/ PlayerToggleRepeat

PlaybackSpec == PlaybackInit /\ [][PlaybackNext]_vars /\ WF_vars(AudioEnded)

\* a step of the 'ended' listener
EndedStep == isPlaying /\ SetPlayer(handleSongEnded(handlePause(Player)))

\* the index after the current one, index 0 after the last
Following == IF currentQueueIndex < Len(playQueue) - 1 THEN currentQueueIndex + 1 ELSE 0

====
